---- MODULE Spec2Model ----
(***************************************************************************)
(* A model of the scoring -> aggregation -> ranking -> comparison ->       *)
(* evaluation core of cv_assistant.                                        *)
(*                                                                         *)
(* Numbers: Python floats are modelled in fixed point.  A criterion score, *)
(* a sub-score or a bonus is an integer number of 1e-5 (Unit is 1.0), a    *)
(* weight or sub-weight an integer number of hundredths, a final score as  *)
(* stored in a ScoringResult an integer number of 1e-4 (it is round(x, 4)) *)
(* and a percentage an integer number of 1e-2 (round(x, 2)).  Rationals    *)
(* that must be compared exactly (the evaluation metrics) are pairs        *)
(* <<numerator, denominator>>.                                             *)
(***************************************************************************)
EXTENDS Integers, Sequences, FiniteSets, TLC

VARIABLES
    scores,         \* ranker input: the "scores" list of scoring_summary.json / the scored files
    ranked_cvs,     \* CVRanker.ranked_cvs
    rank_op,        \* the ranking operation that produced ranked_cvs ("none" before any)
    sliced,         \* the last get_top_n / get_bottom_n call: [op, n, returned] (None before any)
    cv_a, cv_b,     \* the two scoring results handed to CVComparator.compare
    comparison,     \* what compare returned (None before the call)
    explanation,    \* what explain_why_a_better_than_b returned (None before the call)
    config_instance,      \* config_loader._config_instance: None or the loaded configuration
    aggregator_instance,  \* aggregator._aggregator_instance: None or [config |-> ..]
    last_load,      \* the last ConfigLoader construction: [content, outcome] (None before any)
    predicted_ranking,    \* the predicted ranking handed to the evaluation metrics
    metric_out,     \* the last metric call, its arguments and what it returned (None before any)
    round_up,       \* the floating-point environment: which way round() goes at a decimal tie
    aggregator,     \* the ScoreAggregator in use: None or [config, mapping_utils]
    scored,         \* the calls of calculate_final_score so far: [cv_data, config, results]
    batch,          \* a run of PIPELINE_04_SCORING: its position, the files of json_dir, the
                    \* loop index, all_scored_results, the summary written, the list returned
    lookups,        \* the catalogue lookups made so far: [kind, name, value]
    ingest          \* a run of the ingestion loop of pipeline/main.py: its position, the
                    \* files of the input directory, the loop index, __SEEN_HASHES__, the
                    \* error log and the files handed to extraction

rankVars == <<scores, ranked_cvs, rank_op, sliced>>

cmpVars == <<cv_a, cv_b, comparison, explanation>>

cfgVars == <<config_instance, aggregator_instance, last_load>>

metricVars == <<predicted_ranking, metric_out>>

scoreVars == <<round_up, aggregator, scored, batch>>

mappingVars == <<lookups>>

ingestVars == <<ingest>>

vars == <<scores, ranked_cvs, rank_op, sliced, cv_a, cv_b, comparison, explanation,
          config_instance, aggregator_instance, last_load,
          predicted_ranking, metric_out, round_up, aggregator, scored, batch,
          lookups, ingest>>

\* The variables of a component that a specification does not exercise.
RankUnused == scores = <<>> /\ ranked_cvs = <<>> /\ rank_op = "none" /\ sliced = <<>>

CompareUnused == cv_a = <<>> /\ cv_b = <<>> /\ comparison = <<>> /\ explanation = <<>>

ConfigUnused == config_instance = <<>> /\ aggregator_instance = <<>> /\ last_load = <<>>

MetricsUnused == predicted_ranking = <<>> /\ metric_out = <<>>

ScoreUnused == round_up = <<>> /\ aggregator = <<>> /\ scored = <<>> /\ batch = <<>>

MappingUnused == lookups = <<>>

IngestUnused == ingest = <<>>

-----------------------------------------------------------------------------
(* Bounds of the model *)

MaxCVs == 4            \* longest list of scored records handed to the ranker
MaxScoreLevel == 2     \* final scores of ranker inputs are 0, 0.25, .. MaxScoreLevel * 0.25
MaxCmpLevel == 2       \* criterion scores of the comparator's first input are 0, 0.5, .. MaxCmpLevel * 0.5
MaxRankLen == 3        \* longest predicted or ground-truth ranking
MaxPairs == 2          \* most preference pairs
MaxRelevant == 2       \* longest list of relevant items
MaxRel == 2            \* relevance scores are 0 .. MaxRel
MaxK == 4              \* the cut-off k of nDCG@k is -1 .. MaxK
MaxDrift == 2          \* configuration files have weight sums 1.0 - MaxDrift/100 .. 1.0 + MaxDrift/100
MaxCalls == 3          \* most calls of calculate_final_score in a scoring run
MaxFiles == 3          \* most files of the directory a batch scoring run reads

-----------------------------------------------------------------------------
(* Generic helpers *)

Range(s) == {s[i] : i \in 1..Len(s)}

SeqsUpTo(S, n) == UNION {[1..k -> S] : k \in 0..n}

Min(a, b) == IF a < b THEN a ELSE b

Max(a, b) == IF a > b THEN a ELSE b

\* seq[:k]
Take(seq, k) ==
    IF k >= 0 THEN SubSeq(seq, 1, Min(k, Len(seq)))
    ELSE SubSeq(seq, 1, Max(0, Len(seq) + k))

Abs(a) == IF a < 0 THEN -a ELSE a

\* An optional value is a sequence of at most one element.
None == <<>>

Some(x) == <<x>>

The(o) == o[1]

-----------------------------------------------------------------------------
(* Numbers *)

Unit == 100 * 1000         \* 1.0 as a score

WUnit == 10 * 10           \* 1.0 as a weight

\* The calls of round() whose argument may lie on a decimal tie.  Python
\* rounds the binary float, which lies just above or just below the tie (only
\* a tie with an exact binary representation goes to the even neighbour), so
\* at a tie either neighbour can result; the direction is a fixed property of
\* the value computed, kept per call site in round_up.
RoundingSites == {"final_score", "final_score_percentage", "criterion"}

TieDirections == [RoundingSites -> BOOLEAN]

TiesDown == [site \in RoundingSites |-> FALSE]

\* round() to a multiple of d, the result counted in multiples of d; up tells
\* which way a tie goes
PyRound(x, d, up) ==
    LET q == x \div d
        r == x - q * d
    IN  IF 2 * r < d THEN q
        ELSE IF 2 * r > d THEN q + 1
        ELSE IF up THEN q + 1 ELSE q

\* round(score, 4) of a score in 1e-5, in 1e-4
Round4(score, up) == PyRound(score, Unit \div 10000, up)

\* max(0.0, min(1.0, x)) for x counted in 1/one
Clamp01(x, one) == Max(0, Min(one, x))

\* dict.get(key, default)
Get(d, k, default) == IF k \in DOMAIN d THEN d[k] ELSE default

EmptyDict == [x \in {} |-> 0]

RECURSIVE SumOver(_, _)
SumOver(f, S) ==
    IF S = {} THEN 0
    ELSE LET x == CHOOSE y \in S : TRUE IN f[x] + SumOver(f, S \ {x})

\* sum(d.values())
SumValues(d) == SumOver(d, DOMAIN d)

-----------------------------------------------------------------------------
(* Configuration: src/cv_assistant/config/config_loader.py *)

CriteriaOrder == <<"education", "experience", "publications", "coherence", "awards_other">>

Criteria == Range(CriteriaOrder)

Weights(e, x, p, c, a) ==
    [education |-> e, experience |-> x, publications |-> p, coherence |-> c, awards_other |-> a]

\* The sub-weights, policies and normalization shared by the three ablation
\* configurations (ablation_runner.py:269-292, 313-336, 357-380).
AblationSubweights ==
    [education    |-> [gpa |-> 50, degree_level |-> 20, university_tier |-> 30],
     experience   |-> [duration |-> 50, domain_match |-> 30, seniority |-> 20],
     publications |-> [if |-> 50, author_position |-> 30, venue_quality |-> 20],
     coherence    |-> [domain_consistency |-> 60, progression |-> 40]]

AblationPolicies ==
    [missing_values_penalty |-> 10000,
     min_months_experience_for_bonus |-> 24,
     experience_bonus |-> 15000,
     first_author_bonus |-> 15000,
     second_author_bonus |-> 5000,
     target_domain |-> "NLP",
     domain_match_bonus |-> 20000,
     phd_bonus |-> 20000,
     masters_bonus |-> 10000,
     min_domain_consistency |-> 50000]

\* impact factors are counted in hundredths
AblationNormalization ==
    [gpa_scale |-> 400, max_experience_months |-> 120, max_publications |-> 10,
     max_journal_if |-> 5000]

ConfigWith(weights) ==
    [weights |-> weights, subweights |-> AblationSubweights,
     policies |-> AblationPolicies, normalization |-> AblationNormalization]

\* _create_no_publications_config, _create_equal_weights_config,
\* _create_experience_heavy_config
NoPublicationsWeights == Weights(35, 40, 0, 15, 10)

EqualWeights == Weights(20, 20, 20, 20, 20)

ExperienceHeavyWeights == Weights(15, 50, 20, 10, 5)

AblationWeights == {NoPublicationsWeights, EqualWeights, ExperienceHeavyWeights}

\* Further weight tables a configuration file may hold: one criterion only
\* (the aggregator then falls back on its own defaults for the others), and a
\* table with a negative weight.
EducationOnlyWeights == [education |-> 100]

SkewedWeights == Weights(150, -50, 0, 0, 0)

BaseWeights == AblationWeights \cup {EducationOnlyWeights, SkewedWeights}

\* w with d hundredths added to the education weight
Drift(w, d) == [k \in DOMAIN w |-> IF k = "education" THEN w[k] + d ELSE w[k]]

\* d without the key k
Without(d, k) == [x \in (DOMAIN d) \ {k} |-> d[x]]

RequiredSections == <<"weights", "subweights", "policies", "normalization">>

\* The contents of the configuration files of the model: every base weight
\* table with its sum moved by -MaxDrift..MaxDrift hundredths, and the
\* equal-weights configuration with one section or one criterion's
\* sub-weights removed.
ConfigContents ==
    {ConfigWith(Drift(w, d)) : w \in BaseWeights, d \in (0 - MaxDrift)..MaxDrift}
    \cup {Without(ConfigWith(EqualWeights), sec) : sec \in Range(RequiredSections)}
    \cup {[ConfigWith(EqualWeights) EXCEPT !.subweights = Without(AblationSubweights, c)] :
            c \in DOMAIN AblationSubweights}

\* A configuration file: whether it exists, its suffix, and what it holds.
ConfigFiles ==
    {[exists |-> TRUE, suffix |-> ".yaml", content |-> c] : c \in ConfigContents}
    \cup {[exists |-> FALSE, suffix |-> ".yaml", content |-> ConfigWith(EqualWeights)],
          [exists |-> TRUE, suffix |-> ".txt", content |-> ConfigWith(EqualWeights)],
          [exists |-> TRUE, suffix |-> ".json", content |-> ConfigWith(EqualWeights)]}

\* ConfigLoader._load_config: "ok" or the name of the exception raised
LoadConfigOutcome(file) ==
    IF ~file.exists THEN "FileNotFoundError"
    ELSE IF file.suffix \in {".yaml", ".yml", ".json"} THEN "ok"
    ELSE "ValueError"

\* 0.99 <= weight_sum <= 1.01
WeightSumAccepted(weight_sum) == 99 <= weight_sum /\ weight_sum <= 101

\* mutant of ValidateConfigOutcome: the weight sum is not checked
ValidateConfigNoSumCheck(config) ==
    IF \E i \in 1..Len(RequiredSections) : RequiredSections[i] \notin DOMAIN config
    THEN "ValueError"
    ELSE IF \E c \in DOMAIN Get(config, "weights", EmptyDict) :
                c \notin {"awards_other", "coherence"} /\ c \notin DOMAIN config.subweights
    THEN "ValueError"
    ELSE "ok"

\* ConfigLoader._validate_config: "ok" or the name of the exception raised
ValidateConfigOutcome(config) ==
    LET weights == Get(config, "weights", EmptyDict)
        weight_sum == SumValues(weights)
    IN  IF ~WeightSumAccepted(weight_sum) THEN "ValueError"
        ELSE IF \E i \in 1..Len(RequiredSections) : RequiredSections[i] \notin DOMAIN config
        THEN "ValueError"
        ELSE IF \E c \in DOMAIN weights :
                    c \notin {"awards_other", "coherence"} /\ c \notin DOMAIN config.subweights
        THEN "ValueError"
        ELSE "ok"

\* ConfigLoader.__init__: "ok" (the instance then holds file.content) or the
\* exception that leaves no instance
ConfigLoaderOutcome(file) ==
    IF LoadConfigOutcome(file) # "ok" THEN LoadConfigOutcome(file)
    ELSE ValidateConfigOutcome(file.content)

\* ConfigLoader.get_all_weights, get_policy, get_subweights, get_normalization
get_all_weights(config) == config.weights

get_policy(config, policy_name) == Get(config.policies, policy_name, "None")

get_subweights(config, criterion) == Get(config.subweights, criterion, EmptyDict)

get_normalization(config, param_name) == Get(config.normalization, param_name, 1)

-----------------------------------------------------------------------------
(* Score aggregator: src/cv_assistant/scoring/aggregator.py *)

\* weights.get(criterion, default) with the defaults of aggregator.py:53-57
DefaultWeight ==
    [education |-> 30, experience |-> 30, publications |-> 25, coherence |-> 10,
     awards_other |-> 5]

WeightOf(weights, criterion) == Get(weights, criterion, DefaultWeight[criterion])

\* mutant of WeightedSum: the coherence term is left out
WeightedSumWithoutCoherence(weights, score) ==
    score["education"] * WeightOf(weights, "education")
    + score["experience"] * WeightOf(weights, "experience")
    + score["publications"] * WeightOf(weights, "publications")
    + score["awards_other"] * WeightOf(weights, "awards_other")

\* The weighted sum of aggregator.py:52-58, in 1e-7
WeightedSum(weights, score) ==
    score["education"] * WeightOf(weights, "education")
    + score["experience"] * WeightOf(weights, "experience")
    + score["publications"] * WeightOf(weights, "publications")
    + score["coherence"] * WeightOf(weights, "coherence")
    + score["awards_other"] * WeightOf(weights, "awards_other")

\* final_score = max(0.0, min(1.0, final_score)), in 1e-7
ClampedFinalScore(weights, score) == Clamp01(WeightedSum(weights, score), Unit * WUnit)

\* round(final_score * 100, 2) of a final score in 1e-7, in 1e-2
Percentage(final, up) == PyRound(final * 100, (Unit * WUnit) \div 100, up)

\* The results dictionary of aggregator.py:64-103 from the five scorers'
\* scores (in 1e-5) and details; up is the floating-point environment.
CompileResults(config, score, details, up) ==
    LET weights == get_all_weights(config)
        final == ClampedFinalScore(weights, score)
    IN  [final_score |-> PyRound(final, (Unit * WUnit) \div 10000, up["final_score"]),
         final_score_percentage |-> Percentage(final, up["final_score_percentage"]),
         criterion_scores |->
            [c \in Criteria |->
                [score |-> Round4(score[c], up["criterion"]),
                 weight |-> WeightOf(weights, c),
                 weighted_contribution |->
                    PyRound(score[c] * WeightOf(weights, c), (Unit * WUnit) \div 10000,
                            up["criterion"]),
                 details |-> details[c]]],
         config_used |->
            [weights |-> weights, target_domain |-> get_policy(config, "target_domain")]]

NoDetails == [c \in Criteria |-> EmptyDict]

\* scoring_results["cv_filename"] = ..: the dict gains the key
WithFilename(results, name) ==
    [k \in (DOMAIN results) \cup {"cv_filename"} |->
        IF k = "cv_filename" THEN name ELSE results[k]]

-----------------------------------------------------------------------------
(* Python strings, dictionaries and JSON values *)

UpperCase == "ABCDEFGHIJKLMNOPQRSTUVWXYZ"

LowerCase == "abcdefghijklmnopqrstuvwxyz"

LowerTable ==
    [c \in {SubSeq(UpperCase, i, i) : i \in 1..Len(UpperCase)} |->
        LET i == CHOOSE j \in 1..Len(UpperCase) : SubSeq(UpperCase, j, j) = c
        IN  SubSeq(LowerCase, i, i)]

LowerChar(c) == IF c \in DOMAIN LowerTable THEN LowerTable[c] ELSE c

\* str.lower(): the characters from the i-th on, and the whole string
RECURSIVE LowerFrom(_, _)
LowerFrom(s, i) ==
    IF i > Len(s) THEN "" ELSE LowerChar(SubSeq(s, i, i)) \o LowerFrom(s, i + 1)

lower(s) == LowerFrom(s, 1)

\* str.strip()
strip(s) ==
    LET kept == {i \in 1..Len(s) : SubSeq(s, i, i) # " "}
    IN  IF kept = {} THEN ""
        ELSE SubSeq(s, CHOOSE i \in kept : \A j \in kept : i <= j,
                       CHOOSE i \in kept : \A j \in kept : j <= i)

\* keyword in s
Contains(s, keyword) ==
    \E i \in 1..(Len(s) - Len(keyword) + 1) : SubSeq(s, i, i + Len(keyword) - 1) = keyword

\* any(keyword in s for keyword in keywords)
AnyKeywordIn(keywords, s) == \E i \in 1..Len(keywords) : Contains(s, keywords[i])

\* set(s.split()): the words of s between blanks
Tokens(s) ==
    LET Blank(i) == i < 1 \/ i > Len(s) \/ SubSeq(s, i, i) = " "
    IN  {SubSeq(s, i, j) : <<i, j>> \in
            {p \in (1..Len(s)) \X (1..Len(s)) :
                /\ p[1] <= p[2]
                /\ Blank(p[1] - 1) /\ Blank(p[2] + 1)
                /\ \A k \in p[1]..p[2] : ~Blank(k)}}

\* A dictionary whose iteration order matters is a sequence of <<key, value>>
\* pairs in insertion order.
HasKey(d, key) == \E i \in 1..Len(d) : d[i][1] = key

Lookup(d, key) == d[CHOOSE i \in 1..Len(d) : d[i][1] = key][2]

\* d[key] = value: a present key keeps its place
Put(d, key, value) ==
    IF HasKey(d, key)
    THEN [i \in 1..Len(d) |-> IF d[i][1] = key THEN <<key, value>> ELSE d[i]]
    ELSE Append(d, <<key, value>>)

\* A field of an item of a record holds None (JSON null) or Some(value), or
\* is absent.  item.get(key, default):
Field(item, key, default) == IF key \in DOMAIN item THEN item[key] ELSE Some(default)

\* item.get(key): None when absent
FieldOrNone(item, key) == IF key \in DOMAIN item THEN item[key] ELSE None

\* "not x" for an optional number, and for an optional string
FalsyNumber(x) == x = None \/ The(x) = 0

FalsyString(x) == x = None \/ The(x) = ""

\* a / b as a score: the quotient in 1e-5, rounded to the nearest
Ratio(a, b) == (2 * a * Unit + b) \div (2 * b)

-----------------------------------------------------------------------------
(* Lookup tables: src/cv_assistant/mappings/mapping_utils.py *)

\* The quality catalogue (university_tiers.json, journal_if.json,
\* venue_quality.json) of the model; tier scores and venue scores in 1e-5,
\* impact factors in hundredths.
UniversityTiersJson ==
    << <<"tier_1", [score |-> 100000, universities |-> <<"MIT", "Stanford University">>]>>,
       <<"tier_2", [score |-> 70000, universities |-> <<"University of Lahore">>]>>,
       <<"default_tier", [score |-> 30000]>> >>

JournalIfJson ==
    [default_if |-> 100, journals |-> << <<"Nature", 4000>>, <<"IEEE Access", 390>> >>]

VenueQualityJson ==
    << <<"preprints", [score |-> 20000, venues |-> <<"arXiv">>]>>,
       <<"tier_1", [score |-> 100000, venues |-> <<"ACL", "NeurIPS">>]>>,
       <<"tier_2", [score |-> 60000, venues |-> <<"COLING">>]>>,
       <<"default_venue", [score |-> 30000]>> >>

\* for name in names: lookup[name.lower()] = score
RECURSIVE PutAll(_, _, _)
PutAll(lookup, names, score) ==
    IF names = <<>> THEN lookup
    ELSE PutAll(Put(lookup, lower(Head(names)), score), Tail(names), score)

\* MappingUtils._build_university_lookup over the tiers from the i-th on
RECURSIVE build_university_lookup(_, _, _)
build_university_lookup(university_tiers, i, lookup) ==
    IF i > Len(university_tiers) THEN lookup
    ELSE LET tier_name == university_tiers[i][1]
             tier_data == university_tiers[i][2]
         IN  IF tier_name = "default_tier"
             THEN build_university_lookup(university_tiers, i + 1, lookup)
             ELSE build_university_lookup(university_tiers, i + 1,
                        PutAll(lookup, tier_data.universities, tier_data.score))

\* MappingUtils._build_venue_lookup over the tiers from the i-th on
RECURSIVE build_venue_lookup(_, _, _)
build_venue_lookup(venue_quality, i, lookup) ==
    IF i > Len(venue_quality) THEN lookup
    ELSE LET tier_name == venue_quality[i][1]
             tier_data == venue_quality[i][2]
         IN  IF tier_name = "default_venue"
             THEN build_venue_lookup(venue_quality, i + 1, lookup)
             ELSE build_venue_lookup(venue_quality, i + 1,
                        PutAll(lookup, tier_data.venues, tier_data.score))

\* MappingUtils.__init__ over the three files of the mappings directory
MappingUtilsOf(university_tiers, journal_if, venue_quality) ==
    [university_tiers |-> university_tiers,
     journal_if |-> journal_if,
     venue_quality |-> venue_quality,
     university_lookup |-> build_university_lookup(university_tiers, 1, <<>>),
     venue_lookup |-> build_venue_lookup(venue_quality, 1, <<>>)]

\* The MappingUtils of the catalogue above
MappingUtils == MappingUtilsOf(UniversityTiersJson, JournalIfJson, VenueQualityJson)

\* fuzz.token_set_ratio(a, b) of two lower-case names: 100 when the words of
\* one are among the words of the other; otherwise the library's value for
\* the pairs listed, and a low similarity for every other pair.
SimilarityTable ==
    << <<"university of lahor", "university of lahore", 97>>,
       <<"university of lahor", "stanford university", 74>>,
       <<"lahore school of economics", "university of lahore", 62>> >>

token_set_ratio(a, b) ==
    LET wa == Tokens(a)
        wb == Tokens(b)
    IN  IF wa = {} \/ wb = {} THEN 0
        ELSE IF wa \subseteq wb \/ wb \subseteq wa THEN 100
        ELSE IF \E i \in 1..Len(SimilarityTable) :
                    SimilarityTable[i][1] = a /\ SimilarityTable[i][2] = b
        THEN SimilarityTable[CHOOSE i \in 1..Len(SimilarityTable) :
                    SimilarityTable[i][1] = a /\ SimilarityTable[i][2] = b][3]
        ELSE 0

\* mutant of FuzzyBest: a key whose ratio equals the best so far also wins, so
\* on a tie the last key of the scan is taken
RECURSIVE FuzzyBestLastOnTies(_, _, _, _, _)
FuzzyBestLastOnTies(name_lower, items, i, best_ratio, best) ==
    IF i > Len(items) THEN best
    ELSE LET ratio == token_set_ratio(name_lower, lower(items[i][1]))
         IN  IF ratio > 85 /\ ratio >= best_ratio
             THEN FuzzyBestLastOnTies(name_lower, items, i + 1, ratio, items[i][2])
             ELSE FuzzyBestLastOnTies(name_lower, items, i + 1, best_ratio, best)

\* The fuzzy-matching loop of mapping_utils.py:75-79, :106-110 and :142-146
\* over the items from the i-th on: a key wins when its ratio is above 85 and
\* above the best ratio so far.
RECURSIVE FuzzyBest(_, _, _, _, _)
FuzzyBest(name_lower, items, i, best_ratio, best) ==
    IF i > Len(items) THEN best
    ELSE LET ratio == token_set_ratio(name_lower, lower(items[i][1]))
         IN  IF ratio > 85 /\ ratio > best_ratio
             THEN FuzzyBest(name_lower, items, i + 1, ratio, items[i][2])
             ELSE FuzzyBest(name_lower, items, i + 1, best_ratio, best)

DefaultTierScore(mapping_utils) == Lookup(mapping_utils.university_tiers, "default_tier").score

\* MappingUtils.get_university_tier_score; university_name is None or Some(name)
get_university_tier_score(mapping_utils, university_name) ==
    IF FalsyString(university_name) THEN DefaultTierScore(mapping_utils)
    ELSE LET uni_lower == lower(The(university_name))
         IN  IF HasKey(mapping_utils.university_lookup, uni_lower)
             THEN Lookup(mapping_utils.university_lookup, uni_lower)
             ELSE FuzzyBest(uni_lower, mapping_utils.university_lookup, 1, 0,
                            DefaultTierScore(mapping_utils))

\* MappingUtils.get_journal_if, in hundredths
get_journal_if(mapping_utils, journal_name) ==
    IF FalsyString(journal_name) THEN mapping_utils.journal_if.default_if
    ELSE LET journals == Get(mapping_utils.journal_if, "journals", <<>>)
             name_lower == lower(The(journal_name))
         IN  IF \E i \in 1..Len(journals) : name_lower = lower(journals[i][1])
             THEN journals[CHOOSE i \in 1..Len(journals) :
                        /\ name_lower = lower(journals[i][1])
                        /\ \A j \in 1..(i - 1) : name_lower # lower(journals[j][1])][2]
             ELSE FuzzyBest(name_lower, journals, 1, 0, mapping_utils.journal_if.default_if)

DefaultVenueScore(mapping_utils) == Lookup(mapping_utils.venue_quality, "default_venue").score

PreprintKeywords == <<"arxiv", "biorxiv", "medrxiv", "preprint", "ssrn">>

\* MappingUtils.get_venue_quality_score
get_venue_quality_score(mapping_utils, venue_name) ==
    IF FalsyString(venue_name) THEN DefaultVenueScore(mapping_utils)
    ELSE LET venue_lower == lower(The(venue_name))
         IN  IF HasKey(mapping_utils.venue_lookup, venue_lower)
             THEN Lookup(mapping_utils.venue_lookup, venue_lower)
             ELSE IF AnyKeywordIn(PreprintKeywords, venue_lower)
             THEN Lookup(mapping_utils.venue_quality, "preprints").score
             ELSE FuzzyBest(venue_lower, mapping_utils.venue_lookup, 1, 0,
                            DefaultVenueScore(mapping_utils))

\* MappingUtils.get_degree_level_score: 1 bachelor's, 2 master's, 3 PhD
get_degree_level_score(degree) ==
    IF FalsyString(degree) THEN 1
    ELSE LET degree_lower == lower(The(degree))
         IN  IF AnyKeywordIn(<<"phd", "ph.d", "doctorate", "doctoral">>, degree_lower) THEN 3
             ELSE IF AnyKeywordIn(<<"msc", "ms", "ma", "master", "mphil">>, degree_lower) THEN 2
             ELSE 1

-----------------------------------------------------------------------------
(* Criterion scorers: src/cv_assistant/scoring/base_scorer.py and the five  *)
(* scorers.  A record (cv_data) maps "education", "experience",            *)
(* "publications" and "awards" to sequences of items; any key may be       *)
(* absent.  GPAs, scales and impact factors are counted in hundredths.     *)
(* A scorer returns [score (1e-5), details].                               *)

SetMax(S) == CHOOSE x \in S : \A y \in S : y <= x

\* mutant of Items: the list of the record scored before is not cleared
ItemsCarriedOver(cv_data, section) ==
    Get(cv_data, section, <<>>)
        \o (IF scored = <<>> THEN <<>> ELSE Get(scored[Len(scored)].cv_data, section, <<>>))

\* cv_data.get(section, [])
Items(cv_data, section) == Get(cv_data, section, <<>>)

\* round(x, 3) of a score in 1e-5, in 1e-3
Round3(score, up) == PyRound(score, Unit \div 1000, up)

\* A weighted combination in 1e-7 as a score in 1e-5 (rounded to the nearest)
AsScore(x) == (x + (WUnit \div 2)) \div WUnit

\* BaseScorer.normalize_score
normalize_score(value, max_value) ==
    IF max_value = 0 THEN 0 ELSE Min(Unit, Ratio(value, max_value))

\* BaseScorer.get_evidence_spans(items, limit)
get_evidence_spans(items, limit) ==
    LET first == SubSeq(items, 1, Min(limit, Len(items)))
        kept == SelectSeq(first, LAMBDA item :
                    "evidence_span" \in DOMAIN item /\ ~FalsyString(item["evidence_span"]))
    IN  [i \in 1..Len(kept) |->
            SubSeq(The(kept[i]["evidence_span"]), 1,
                   Min(200, Len(The(kept[i]["evidence_span"]))))]

\* A string field on which the code calls .lower() or .strip() holds None:
\* the call raises AttributeError
NullString(item, key) == key \in DOMAIN item /\ item[key] = None

\* item.get(key, "").lower()
LowerField(item, key) == lower(The(Field(item, key, "")))

(* Education: education_scorer.py *)

\* EducationScorer._calculate_gpa_score
calculate_gpa_score(education_items) ==
    SetMax({0} \cup
        {Ratio(The(Field(education_items[i], "gpa", 0)),
               The(Field(education_items[i], "scale", 400))) :
            i \in {j \in 1..Len(education_items) :
                    LET gpa == Field(education_items[j], "gpa", 0)
                        scale == Field(education_items[j], "scale", 400)
                    IN  ~FalsyNumber(gpa) /\ ~FalsyNumber(scale) /\ The(scale) > 0}})

\* EducationScorer._calculate_degree_score
calculate_degree_score(education_items) ==
    LET max_level == SetMax({0} \cup
            {get_degree_level_score(Field(education_items[i], "degree", "")) :
                i \in 1..Len(education_items)})
    IN  IF education_items = <<>> THEN 0
        ELSE IF max_level > 0 THEN ((max_level - 1) * Unit) \div 2 ELSE 0

\* EducationScorer._calculate_university_score
calculate_university_score(mapping_utils, education_items) ==
    SetMax({0} \cup
        {get_university_tier_score(mapping_utils, Field(education_items[i], "university", "")) :
            i \in 1..Len(education_items)})

\* EducationScorer._apply_bonuses, on a score in 1e-7
education_apply_bonuses(config, base_score, education_items) ==
    LET IsPhd(edu) == \/ Contains(LowerField(edu, "degree"), "phd")
                      \/ Contains(LowerField(edu, "degree"), "doctorate")
        IsMasters(edu) == /\ ~IsPhd(edu)
                          /\ \/ Contains(LowerField(edu, "degree"), "msc")
                             \/ Contains(LowerField(edu, "degree"), "master")
                             \/ Contains(LowerField(edu, "degree"), "ms")
        has_phd == \E i \in 1..Len(education_items) : IsPhd(education_items[i])
        has_masters == \E i \in 1..Len(education_items) : IsMasters(education_items[i])
    IN  IF has_phd THEN base_score + get_policy(config, "phd_bonus") * WUnit
        ELSE IF has_masters THEN base_score + get_policy(config, "masters_bonus") * WUnit
        ELSE base_score

\* EducationScorer._get_breakdown
education_breakdown(mapping_utils, education_items) ==
    [i \in 1..Len(education_items) |->
        LET edu == education_items[i]
        IN  [degree |-> Field(edu, "degree", ""),
             university |-> Field(edu, "university", ""),
             gpa |-> <<Field(edu, "gpa", 0), Field(edu, "scale", 400)>>,
             tier_score |-> get_university_tier_score(mapping_utils, Field(edu, "university", "")),
             degree_level |-> get_degree_level_score(Field(edu, "degree", ""))]]

\* The exception EducationScorer.calculate_score raises, or "ok"
EducationRaises(cv_data) ==
    IF \E i \in 1..Len(Items(cv_data, "education")) :
            NullString(Items(cv_data, "education")[i], "degree")
    THEN "AttributeError" ELSE "ok"

\* EducationScorer.calculate_score
EducationScorer(config, mapping_utils, cv_data, up) ==
    LET education_items == Items(cv_data, "education")
        subweights == get_subweights(config, "education")
        gpa_score == calculate_gpa_score(education_items)
        degree_score == calculate_degree_score(education_items)
        university_score == calculate_university_score(mapping_utils, education_items)
        combined == gpa_score * Get(subweights, "gpa", 50)
                    + degree_score * Get(subweights, "degree_level", 20)
                    + university_score * Get(subweights, "university_tier", 30)
        final_score ==
            AsScore(Clamp01(education_apply_bonuses(config, combined, education_items),
                            Unit * WUnit))
    IN  IF education_items = <<>>
        THEN [score |-> 0,
              details |-> [sub_scores |-> [gpa |-> 0, degree_level |-> 0, university_tier |-> 0],
                           final_score |-> 0,
                           has_data |-> FALSE,
                           missing_penalty_applied |-> TRUE,
                           evidence |-> <<>>]]
        ELSE [score |-> final_score,
              details |-> [sub_scores |-> [gpa |-> Round3(gpa_score, up),
                                           degree_level |-> Round3(degree_score, up),
                                           university_tier |-> Round3(university_score, up)],
                           final_score |-> Round3(final_score, up),
                           has_data |-> TRUE,
                           missing_penalty_applied |-> FALSE,
                           evidence |-> get_evidence_spans(education_items, 3),
                           breakdown |-> education_breakdown(mapping_utils, education_items)]]

(* Experience: experience_scorer.py *)

\* ExperienceScorer._estimate_duration
estimate_duration(exp) ==
    LET end == Field(exp, "end", "")
    IN  IF ~FalsyString(end) /\ AnyKeywordIn(<<"current", "present", "now">>, lower(The(end)))
        THEN 12 ELSE 0

\* ExperienceScorer._calculate_total_months
calculate_total_months(experience_items) ==
    LET Months(exp) ==
            IF ~FalsyNumber(FieldOrNone(exp, "duration_months"))
            THEN The(exp["duration_months"]) ELSE estimate_duration(exp)
        sum[i \in 0..Len(experience_items)] ==
            IF i = 0 THEN 0 ELSE sum[i - 1] + Months(experience_items[i])
    IN  sum[Len(experience_items)]

\* ExperienceScorer._calculate_duration_score
calculate_duration_score(config, experience_items) ==
    normalize_score(calculate_total_months(experience_items),
                    get_normalization(config, "max_experience_months"))

\* ExperienceScorer._calculate_domain_score
calculate_domain_score(config, experience_items) ==
    LET target_domain == get_policy(config, "target_domain")
        domain_matches == Cardinality({i \in 1..Len(experience_items) :
            Contains(LowerField(experience_items[i], "domain"), lower(target_domain))})
        total_experiences == Len(experience_items)
        match_ratio == Ratio(domain_matches, total_experiences)
    IN  IF target_domain = "" THEN Unit \div 2
        ELSE IF total_experiences = 0 THEN 0
        ELSE IF 2 * domain_matches >= total_experiences
        THEN Min(Unit, match_ratio + get_policy(config, "domain_match_bonus"))
        ELSE match_ratio

SeniorKeywords ==
    <<"senior", "lead", "principal", "director", "manager", "head", "chief", "vp">>

MidKeywords == <<"associate", "specialist", "analyst", "engineer", "developer">>

\* The seniority of a lower-case title as ExperienceScorer ranks it
ExperienceSeniority(title) ==
    IF AnyKeywordIn(SeniorKeywords, title) THEN 3
    ELSE IF AnyKeywordIn(MidKeywords, title) THEN 2
    ELSE 1

\* ExperienceScorer._calculate_seniority_score
calculate_seniority_score(experience_items) ==
    LET max_seniority == SetMax({0} \cup
            {ExperienceSeniority(LowerField(experience_items[i], "title")) :
                i \in 1..Len(experience_items)})
    IN  IF max_seniority > 0 THEN ((max_seniority - 1) * Unit) \div 2 ELSE 0

\* ExperienceScorer._apply_experience_bonus, on a score in 1e-7
apply_experience_bonus(config, base_score, total_months) ==
    IF total_months >= get_policy(config, "min_months_experience_for_bonus")
    THEN base_score + get_policy(config, "experience_bonus") * WUnit
    ELSE base_score

\* ExperienceScorer._get_seniority_level
get_seniority_level(title) ==
    IF ExperienceSeniority(lower(title)) = 3 THEN "Senior"
    ELSE IF ExperienceSeniority(lower(title)) = 2 THEN "Mid"
    ELSE "Junior"

\* ExperienceScorer._get_breakdown
experience_breakdown(experience_items) ==
    [i \in 1..Len(experience_items) |->
        LET exp == experience_items[i]
        IN  [title |-> Field(exp, "title", ""),
             org |-> Field(exp, "org", ""),
             duration_months |->
                IF FalsyNumber(Field(exp, "duration_months", 0))
                THEN estimate_duration(exp) ELSE The(exp["duration_months"]),
             domain |-> Field(exp, "domain", ""),
             seniority_level |-> get_seniority_level(The(Field(exp, "title", "")))]]

\* The exception ExperienceScorer.calculate_score raises, or "ok"
ExperienceRaises(config, cv_data) ==
    LET experience_items == Items(cv_data, "experience")
    IN  IF \E i \in 1..Len(experience_items) :
                \/ get_policy(config, "target_domain") # ""
                    /\ NullString(experience_items[i], "domain")
                \/ NullString(experience_items[i], "title")
        THEN "AttributeError" ELSE "ok"

\* ExperienceScorer.calculate_score
ExperienceScorer(config, cv_data, up) ==
    LET experience_items == Items(cv_data, "experience")
        subweights == get_subweights(config, "experience")
        duration_score == calculate_duration_score(config, experience_items)
        domain_score == calculate_domain_score(config, experience_items)
        seniority_score == calculate_seniority_score(experience_items)
        combined == duration_score * Get(subweights, "duration", 50)
                    + domain_score * Get(subweights, "domain_match", 30)
                    + seniority_score * Get(subweights, "seniority", 20)
        total_months == calculate_total_months(experience_items)
        final_score ==
            AsScore(Clamp01(apply_experience_bonus(config, combined, total_months),
                            Unit * WUnit))
    IN  IF experience_items = <<>>
        THEN [score |-> 0,
              details |-> [sub_scores |-> [duration |-> 0, domain_match |-> 0, seniority |-> 0],
                           final_score |-> 0,
                           has_data |-> FALSE,
                           missing_penalty_applied |-> TRUE,
                           evidence |-> <<>>,
                           total_months |-> 0]]
        ELSE [score |-> final_score,
              details |-> [sub_scores |-> [duration |-> Round3(duration_score, up),
                                           domain_match |-> Round3(domain_score, up),
                                           seniority |-> Round3(seniority_score, up)],
                           final_score |-> Round3(final_score, up),
                           has_data |-> TRUE,
                           missing_penalty_applied |-> FALSE,
                           evidence |-> get_evidence_spans(experience_items, 3),
                           total_months |-> total_months,
                           total_years |->
                                PyRound(total_months * 10, 12,
                                        ((total_months * 10) \div 12) % 2 = 1),
                           breakdown |-> experience_breakdown(experience_items)]]

(* Publications: publication_scorer.py *)

\* sum(values) / len(values) of scores, rounded to the nearest 1e-5
Mean(total, count) == (2 * total + count) \div (2 * count)

\* "journal" in pub.get("type", "").lower()
IsJournal(pub) == Contains(LowerField(pub, "type"), "journal")

\* The impact factor (hundredths) PublicationScorer._calculate_if_score
\* takes for one publication: the declared one, else the catalogue's, else
\* the venue quality scaled to 0-10
ImpactFactorOf(mapping_utils, pub) ==
    IF ~FalsyNumber(FieldOrNone(pub, "journal_if")) THEN The(pub["journal_if"])
    ELSE IF IsJournal(pub) THEN get_journal_if(mapping_utils, Field(pub, "venue", ""))
    ELSE get_venue_quality_score(mapping_utils, Field(pub, "venue", "")) \div (Unit \div 1000)

\* PublicationScorer._calculate_if_score
calculate_if_score(config, mapping_utils, publication_items) ==
    LET max_if == get_normalization(config, "max_journal_if")
        counted == {i \in 1..Len(publication_items) :
                        ImpactFactorOf(mapping_utils, publication_items[i]) # 0}
        normalized == [i \in counted |->
                        normalize_score(ImpactFactorOf(mapping_utils, publication_items[i]), max_if)]
    IN  IF counted # {} THEN Mean(SumOver(normalized, counted), Cardinality(counted)) ELSE 0

\* The score of one author position (publication_scorer.py:101-116)
PositionScore(config, position) ==
    IF position = 1 THEN Min(Unit, Unit + get_policy(config, "first_author_bonus"))
    ELSE IF position = 2
    THEN Min(Unit, 8 * (Unit \div 10) + get_policy(config, "second_author_bonus"))
    ELSE IF position <= 5 THEN 6 * (Unit \div 10) - (position - 3) * (Unit \div 10)
    ELSE 2 * (Unit \div 10)

\* PublicationScorer._calculate_author_position_score
calculate_author_position_score(config, publication_items) ==
    LET all == 1..Len(publication_items)
        position_scores == [i \in all |->
            PositionScore(config, The(Field(publication_items[i], "author_position", 999)))]
    IN  IF all # {} THEN Mean(SumOver(position_scores, all), Cardinality(all)) ELSE 0

\* The venue score of one publication (publication_scorer.py:128-138)
VenueScoreOf(mapping_utils, pub) ==
    IF IsJournal(pub)
    THEN Min(Unit, Ratio(get_journal_if(mapping_utils, Field(pub, "venue", "")), 5000))
    ELSE get_venue_quality_score(mapping_utils, Field(pub, "venue", ""))

\* PublicationScorer._calculate_venue_score
calculate_venue_score(mapping_utils, publication_items) ==
    LET all == 1..Len(publication_items)
        venue_scores == [i \in all |-> VenueScoreOf(mapping_utils, publication_items[i])]
    IN  IF all # {} THEN Mean(SumOver(venue_scores, all), Cardinality(all)) ELSE 0

\* PublicationScorer._get_breakdown; quality_metric in 1e-2
publication_breakdown(mapping_utils, publication_items) ==
    [i \in 1..Len(publication_items) |->
        LET pub == publication_items[i]
        IN  [title |-> Field(pub, "title", ""),
             venue |-> Field(pub, "venue", ""),
             year |-> Field(pub, "year", ""),
             type |-> Field(pub, "type", ""),
             author_position |-> Field(pub, "author_position", "Unknown"),
             quality_metric |->
                IF IsJournal(pub) THEN get_journal_if(mapping_utils, Field(pub, "venue", ""))
                ELSE PyRound(get_venue_quality_score(mapping_utils, Field(pub, "venue", "")),
                             Unit \div 100, FALSE),
             quality_type |-> IF IsJournal(pub) THEN "IF" ELSE "Venue Score",
             domain |-> Field(pub, "domain", "")]]

\* The exception PublicationScorer.calculate_score raises, or "ok": the
\* impact-factor loop runs first, then the author-position loop, then the
\* venue loop
PublicationRaises(cv_data) ==
    LET publication_items == Items(cv_data, "publications")
        all == 1..Len(publication_items)
    IN  IF \E i \in all : /\ FalsyNumber(FieldOrNone(publication_items[i], "journal_if"))
                          /\ NullString(publication_items[i], "type")
        THEN "AttributeError"
        ELSE IF \E i \in all : Field(publication_items[i], "author_position", 999) = None
        THEN "TypeError"
        ELSE IF \E i \in all : NullString(publication_items[i], "type")
        THEN "AttributeError"
        ELSE "ok"

\* PublicationScorer.calculate_score
PublicationScorer(config, mapping_utils, cv_data, up) ==
    LET publication_items == Items(cv_data, "publications")
        subweights == get_subweights(config, "publications")
        if_score == calculate_if_score(config, mapping_utils, publication_items)
        author_score == calculate_author_position_score(config, publication_items)
        venue_score == calculate_venue_score(mapping_utils, publication_items)
        combined == if_score * Get(subweights, "if", 50)
                    + author_score * Get(subweights, "author_position", 30)
                    + venue_score * Get(subweights, "venue_quality", 20)
        final_score == AsScore(Clamp01(combined, Unit * WUnit))
    IN  IF publication_items = <<>>
        THEN [score |-> 0,
              details |-> [sub_scores |-> [if |-> 0, author_position |-> 0, venue_quality |-> 0],
                           final_score |-> 0,
                           has_data |-> FALSE,
                           missing_penalty_applied |-> TRUE,
                           evidence |-> <<>>,
                           total_publications |-> 0]]
        ELSE [score |-> final_score,
              details |-> [sub_scores |-> [if |-> Round3(if_score, up),
                                           author_position |-> Round3(author_score, up),
                                           venue_quality |-> Round3(venue_score, up)],
                           final_score |-> Round3(final_score, up),
                           has_data |-> TRUE,
                           missing_penalty_applied |-> FALSE,
                           evidence |-> get_evidence_spans(publication_items, 3),
                           total_publications |-> Len(publication_items),
                           breakdown |-> publication_breakdown(mapping_utils, publication_items)]]

(* Coherence: coherence_scorer.py *)

\* The non-empty values of item.get(key, "").strip() over a list of items
StrippedFields(items, key) ==
    SelectSeq([i \in 1..Len(items) |-> strip(The(Field(items[i], key, "")))],
              LAMBDA s : s # "")

\* The domains pooled from experience, education and publications, in order
PooledDomains(experience_items, education_items, publication_items) ==
    StrippedFields(experience_items, "domain") \o StrippedFields(education_items, "field")
        \o StrippedFields(publication_items, "domain")

CountOf(seq, x) == Cardinality({i \in 1..Len(seq) : seq[i] = x})

\* Counter(seq).most_common(1)[0][0]: the most frequent element, the first
\* inserted among equals
MostCommon(seq) ==
    seq[CHOOSE i \in 1..Len(seq) :
            /\ \A j \in 1..Len(seq) : CountOf(seq, seq[j]) <= CountOf(seq, seq[i])
            /\ \A j \in 1..(i - 1) : CountOf(seq, seq[j]) < CountOf(seq, seq[i])]

\* CoherenceScorer._calculate_domain_consistency
calculate_domain_consistency(config, experience_items, education_items, publication_items) ==
    LET pooled == PooledDomains(experience_items, education_items, publication_items)
        domains == [i \in 1..Len(pooled) |-> lower(pooled[i])]
        most_common_count == CountOf(domains, MostCommon(domains))
        consistency == Ratio(most_common_count, Len(domains))
    IN  IF domains = <<>> THEN Unit \div 2
        ELSE IF most_common_count * Unit >= get_policy(config, "min_domain_consistency") * Len(domains)
        THEN Min(Unit, consistency + Unit \div 10)
        ELSE consistency

MidKeywordsCoherence ==
    <<"associate", "specialist", "analyst", "engineer", "developer", "consultant">>

\* CoherenceScorer._get_seniority_level_numeric
get_seniority_level_numeric(title) ==
    IF AnyKeywordIn(SeniorKeywords, lower(title)) THEN 3
    ELSE IF AnyKeywordIn(MidKeywordsCoherence, lower(title)) THEN 2
    ELSE 1

\* mutant of calculate_progression_score: a pair counts when its second entry
\* is at least as senior as its first
calculate_progression_score_second_ahead(experience_items) ==
    LET total_comparisons == Len(experience_items) - 1
        progression_indicators == Cardinality({i \in 1..total_comparisons :
            get_seniority_level_numeric(The(Field(experience_items[i + 1], "title", "")))
                >= get_seniority_level_numeric(The(Field(experience_items[i], "title", "")))})
    IN  IF Len(experience_items) < 2 THEN Unit \div 2
        ELSE Ratio(progression_indicators, total_comparisons)

\* CoherenceScorer._calculate_progression_score
calculate_progression_score(experience_items) ==
    LET total_comparisons == Len(experience_items) - 1
        progression_indicators == Cardinality({i \in 1..total_comparisons :
            get_seniority_level_numeric(The(Field(experience_items[i], "title", "")))
                >= get_seniority_level_numeric(The(Field(experience_items[i + 1], "title", "")))})
    IN  IF Len(experience_items) < 2 THEN Unit \div 2
        ELSE Ratio(progression_indicators, total_comparisons)

\* CoherenceScorer._get_dominant_domain
get_dominant_domain(experience_items, education_items, publication_items) ==
    LET domains == PooledDomains(experience_items, education_items, publication_items)
    IN  IF domains = <<>> THEN "Unknown" ELSE MostCommon(domains)

\* str(x) of an optional string inside an f-string
Str(x) == IF x = None THEN "None" ELSE The(x)

\* CoherenceScorer._get_coherence_evidence
get_coherence_evidence(experience_items) ==
    [i \in 1..Min(3, Len(experience_items)) |->
        LET exp == experience_items[i]
        IN  Str(Field(exp, "title", "")) \o " at " \o Str(Field(exp, "org", ""))
                \o " (" \o Str(Field(exp, "domain", "")) \o ")"]

\* CoherenceScorer._get_seniority_level_text
get_seniority_level_text(title) ==
    IF get_seniority_level_numeric(title) = 3 THEN "Senior"
    ELSE IF get_seniority_level_numeric(title) = 2 THEN "Mid"
    ELSE "Junior"

\* CoherenceScorer._get_breakdown; domain_distribution is the Counter as a
\* sequence of <<domain, count>> in insertion order
coherence_breakdown(experience_items) ==
    LET with_domain == SelectSeq(experience_items,
                            LAMBDA exp : ~FalsyString(FieldOrNone(exp, "domain")))
        domains == [i \in 1..Len(with_domain) |-> The(with_domain[i]["domain"])]
        firsts == SelectSeq([i \in 1..Len(domains) |-> <<i, domains[i]>>],
                            LAMBDA p : \A j \in 1..(p[1] - 1) : domains[j] # p[2])
    IN  [total_experiences |-> Len(experience_items),
         domain_distribution |->
            [i \in 1..Len(firsts) |-> <<firsts[i][2], CountOf(domains, firsts[i][2])>>],
         career_path |->
            [i \in 1..Len(experience_items) |->
                [title |-> Field(experience_items[i], "title", ""),
                 domain |-> Field(experience_items[i], "domain", ""),
                 seniority |->
                    get_seniority_level_text(The(Field(experience_items[i], "title", "")))]]]

\* The exception CoherenceScorer.calculate_score raises, or "ok"
CoherenceRaises(cv_data) ==
    LET experience_items == Items(cv_data, "experience")
    IN  IF experience_items = <<>> THEN "ok"
        ELSE IF \/ \E i \in 1..Len(experience_items) :
                        \/ NullString(experience_items[i], "domain")
                        \/ NullString(experience_items[i], "title")
                \/ \E i \in 1..Len(Items(cv_data, "education")) :
                        NullString(Items(cv_data, "education")[i], "field")
                \/ \E i \in 1..Len(Items(cv_data, "publications")) :
                        NullString(Items(cv_data, "publications")[i], "domain")
        THEN "AttributeError" ELSE "ok"

\* mutant of CoherenceScorer: a record without experience scores 0.0
CoherenceScorerZeroWithoutExperience(config, cv_data, up) ==
    LET experience_items == Items(cv_data, "experience")
        education_items == Items(cv_data, "education")
        publication_items == Items(cv_data, "publications")
        subweights == get_subweights(config, "coherence")
        domain_score == calculate_domain_consistency(config, experience_items,
                                                     education_items, publication_items)
        progression_score == calculate_progression_score(experience_items)
        combined == domain_score * Get(subweights, "domain_consistency", 60)
                    + progression_score * Get(subweights, "progression", 40)
        final_score == AsScore(Clamp01(combined, Unit * WUnit))
    IN  IF experience_items = <<>>
        THEN [score |-> 0,
              details |-> [sub_scores |-> [domain_consistency |-> 500, progression |-> 500],
                           final_score |-> 500,
                           has_data |-> FALSE,
                           missing_penalty_applied |-> FALSE,
                           evidence |-> <<>>,
                           dominant_domain |-> None]]
        ELSE [score |-> final_score,
              details |-> [sub_scores |-> [domain_consistency |-> Round3(domain_score, up),
                                           progression |-> Round3(progression_score, up)],
                           final_score |-> Round3(final_score, up),
                           has_data |-> TRUE,
                           missing_penalty_applied |-> FALSE,
                           evidence |-> get_coherence_evidence(experience_items),
                           dominant_domain |->
                                Some(get_dominant_domain(experience_items, education_items,
                                                         publication_items)),
                           breakdown |-> coherence_breakdown(experience_items)]]

\* CoherenceScorer.calculate_score
CoherenceScorer(config, cv_data, up) ==
    LET experience_items == Items(cv_data, "experience")
        education_items == Items(cv_data, "education")
        publication_items == Items(cv_data, "publications")
        subweights == get_subweights(config, "coherence")
        domain_score == calculate_domain_consistency(config, experience_items,
                                                     education_items, publication_items)
        progression_score == calculate_progression_score(experience_items)
        combined == domain_score * Get(subweights, "domain_consistency", 60)
                    + progression_score * Get(subweights, "progression", 40)
        final_score == AsScore(Clamp01(combined, Unit * WUnit))
    IN  IF experience_items = <<>>
        THEN [score |-> Unit \div 2,
              details |-> [sub_scores |-> [domain_consistency |-> 500, progression |-> 500],
                           final_score |-> 500,
                           has_data |-> FALSE,
                           missing_penalty_applied |-> FALSE,
                           evidence |-> <<>>,
                           dominant_domain |-> None]]
        ELSE [score |-> final_score,
              details |-> [sub_scores |-> [domain_consistency |-> Round3(domain_score, up),
                                           progression |-> Round3(progression_score, up)],
                           final_score |-> Round3(final_score, up),
                           has_data |-> TRUE,
                           missing_penalty_applied |-> FALSE,
                           evidence |-> get_coherence_evidence(experience_items),
                           dominant_domain |->
                                Some(get_dominant_domain(experience_items, education_items,
                                                         publication_items)),
                           breakdown |-> coherence_breakdown(experience_items)]]

(* Awards: awards_scorer.py *)

PrestigiousKeywords ==
    <<"gold", "medal", "best", "outstanding", "excellence", "dean's list", "honors",
      "scholarship", "fellowship", "distinguished", "achievement", "recognition">>

PrestigiousIssuers ==
    <<"ieee", "acm", "google", "microsoft", "amazon", "national", "international",
      "government">>

\* mutant of AwardScore: the research/academic/professional types are tested
\* last
AwardScoreResearchLast(award) ==
    LET award_type == LowerField(award, "type")
        base == IF AnyKeywordIn(<<"research", "academic", "professional">>, award_type) THEN 6
                ELSE IF AnyKeywordIn(<<"national", "international">>, award_type) THEN 8
                ELSE 3
        titled == IF AnyKeywordIn(PrestigiousKeywords, LowerField(award, "title"))
                  THEN base + 2 ELSE base
        issued == IF AnyKeywordIn(PrestigiousIssuers, LowerField(award, "issuer"))
                  THEN titled + 1 ELSE titled
    IN  Min(10, issued)

\* The score of one award in tenths (awards_scorer.py:52-86)
AwardScore(award) ==
    LET award_type == LowerField(award, "type")
        base == IF AnyKeywordIn(<<"national", "international">>, award_type) THEN 8
                ELSE IF AnyKeywordIn(<<"research", "academic", "professional">>, award_type)
                THEN 6
                ELSE 3
        titled == IF AnyKeywordIn(PrestigiousKeywords, LowerField(award, "title"))
                  THEN base + 2 ELSE base
        issued == IF AnyKeywordIn(PrestigiousIssuers, LowerField(award, "issuer"))
                  THEN titled + 1 ELSE titled
    IN  Min(10, issued)

\* math.log(1 + total / 10) / math.log(1 + n * 1.5) in 1e-5, for n awards
\* (the row) and a total of 0 .. 10 * n tenths (the column, from 0)
LogNormalized ==
    << <<0, 10402, 19898, 28633, 36721, 44251, 51294, 57910, 64148, 70049, 75647>>,
       <<0, 6875, 13152, 18926, 24271, 29248, 33904, 38277, 42400, 46300, 50000, 53519,
         56875, 60082, 63152, 66096, 68926, 71648, 74271, 76803, 79248>>,
       <<0, 5591, 10695, 15390, 19737, 23784, 27570, 31126, 34479, 37651, 40660, 43522,
         46251, 48858, 51355, 53749, 56050, 58264, 60397, 62456, 64444, 66368, 68230,
         70035, 71786, 73487, 75139, 76746, 78311, 79834, 81320>> >>

\* AwardsScorer._calculate_awards_score
calculate_awards_score(awards_items) ==
    LET all == 1..Len(awards_items)
        total_score == SumOver([i \in all |-> AwardScore(awards_items[i])], all)
    IN  IF awards_items = <<>> THEN 0
        ELSE Min(Unit, LogNormalized[Len(awards_items)][total_score + 1])

\* AwardsScorer._assess_prestige
assess_prestige(award) ==
    LET InAny(keyword) == \/ Contains(LowerField(award, "title"), keyword)
                          \/ Contains(LowerField(award, "type"), keyword)
                          \/ Contains(LowerField(award, "issuer"), keyword)
        high_prestige == <<"gold", "medal", "best", "outstanding", "excellence", "national",
                           "international", "distinguished">>
        medium_prestige == <<"dean's list", "honors", "scholarship", "fellowship",
                             "achievement", "recognition", "academic", "professional">>
    IN  IF \E i \in 1..Len(high_prestige) : InAny(high_prestige[i]) THEN "High"
        ELSE IF \E i \in 1..Len(medium_prestige) : InAny(medium_prestige[i]) THEN "Medium"
        ELSE "Standard"

\* AwardsScorer._get_breakdown
awards_breakdown(awards_items) ==
    [i \in 1..Len(awards_items) |->
        [title |-> Field(awards_items[i], "title", ""),
         issuer |-> Field(awards_items[i], "issuer", ""),
         year |-> Field(awards_items[i], "year", ""),
         type |-> Field(awards_items[i], "type", ""),
         prestige_level |-> assess_prestige(awards_items[i])]]

\* The exception AwardsScorer.calculate_score raises, or "ok"
AwardsRaises(cv_data) ==
    IF \E i \in 1..Len(Items(cv_data, "awards")) :
            \/ NullString(Items(cv_data, "awards")[i], "type")
            \/ NullString(Items(cv_data, "awards")[i], "title")
            \/ NullString(Items(cv_data, "awards")[i], "issuer")
    THEN "AttributeError" ELSE "ok"

\* AwardsScorer.calculate_score
AwardsScorer(cv_data, up) ==
    LET awards_items == Items(cv_data, "awards")
        score == Clamp01(calculate_awards_score(awards_items), Unit)
    IN  IF awards_items = <<>>
        THEN [score |-> 0,
              details |-> [final_score |-> 0,
                           has_data |-> FALSE,
                           missing_penalty_applied |-> FALSE,
                           evidence |-> <<>>,
                           total_awards |-> 0]]
        ELSE [score |-> score,
              details |-> [final_score |-> Round3(score, up),
                           has_data |-> TRUE,
                           missing_penalty_applied |-> FALSE,
                           evidence |-> get_evidence_spans(awards_items, 3),
                           total_awards |-> Len(awards_items),
                           breakdown |-> awards_breakdown(awards_items)]]

-----------------------------------------------------------------------------
(* ScoreAggregator.calculate_final_score and the scoring run:              *)
(* aggregator.py:13-105, ablation_runner.py:65-82, pipeline_04_scoring.py  *)

\* ScoreAggregator.__init__(config, mapping_utils)
ScoreAggregator(config) == [config |-> config, mapping_utils |-> MappingUtils]

\* The exception a scorer raises inside calculate_final_score, the first in
\* the order of the calls of aggregator.py:45-49, or "ok"
ScoringRaises(config, cv_data) ==
    IF EducationRaises(cv_data) # "ok" THEN EducationRaises(cv_data)
    ELSE IF ExperienceRaises(config, cv_data) # "ok" THEN ExperienceRaises(config, cv_data)
    ELSE IF PublicationRaises(cv_data) # "ok" THEN PublicationRaises(cv_data)
    ELSE IF CoherenceRaises(cv_data) # "ok" THEN CoherenceRaises(cv_data)
    ELSE AwardsRaises(cv_data)

\* ScoreAggregator.calculate_final_score: [raised, results], results None
\* when a scorer raised
calculate_final_score(self, cv_data, up) ==
    LET education == EducationScorer(self.config, self.mapping_utils, cv_data, up["criterion"])
        experience == ExperienceScorer(self.config, cv_data, up["criterion"])
        publication == PublicationScorer(self.config, self.mapping_utils, cv_data, up["criterion"])
        coherence == CoherenceScorer(self.config, cv_data, up["criterion"])
        awards == AwardsScorer(cv_data, up["criterion"])
        score == [education |-> education.score, experience |-> experience.score,
                  publications |-> publication.score, coherence |-> coherence.score,
                  awards_other |-> awards.score]
        details == [education |-> education.details, experience |-> experience.details,
                    publications |-> publication.details, coherence |-> coherence.details,
                    awards_other |-> awards.details]
    IN  IF ScoringRaises(self.config, cv_data) # "ok"
        THEN [raised |-> ScoringRaises(self.config, cv_data), results |-> None]
        ELSE [raised |-> "ok", results |-> Some(CompileResults(self.config, score, details, up))]

\* The records of the model
GraduateRecord ==
    [education |-> <<[degree |-> Some("BSc"), field |-> Some("Computer Science"),
                      university |-> Some("MIT"), gpa |-> Some(340), scale |-> Some(400)]>>]

ResearcherRecord ==
    [education |-> <<[degree |-> Some("PhD"), field |-> Some("NLP"),
                      university |-> Some("Stanford"), gpa |-> Some(390), scale |-> Some(400),
                      evidence_span |-> Some("PhD in NLP, Stanford")],
                     [degree |-> Some("MSc"), field |-> Some("Computer Science"),
                      university |-> Some("University of Lahor"), gpa |-> Some(820),
                      scale |-> Some(1000)]>>,
     experience |-> <<[title |-> Some("Senior Research Engineer"), org |-> Some("Google"),
                       duration_months |-> Some(60), domain |-> Some("NLP")],
                      [title |-> Some("Research Intern"), org |-> Some("NVIDIA"),
                       duration_months |-> None, end |-> Some("Present"),
                       domain |-> Some(" nlp ")]>>,
     publications |-> <<[title |-> Some("Parsing"), venue |-> Some("Nature"),
                         type |-> Some("Journal"), author_position |-> Some(1),
                         domain |-> Some("NLP")],
                        [title |-> Some("Tagging"), venue |-> Some("ACL 2023"),
                         type |-> Some("Conference"), author_position |-> Some(3)]>>,
     awards |-> <<[title |-> Some("Best Paper Award"), issuer |-> Some("ACL"),
                   type |-> Some("Research")]>>]

PractitionerRecord ==
    [education |-> <<>>,
     experience |-> <<[title |-> Some("Analyst"), org |-> Some("ABC Pvt. Ltd."),
                       duration_months |-> Some(18), domain |-> Some("Finance")],
                      [title |-> Some("Finance Manager"), org |-> Some("ABC Pvt. Ltd."),
                       duration_months |-> Some(30), domain |-> Some("Finance")]>>,
     awards |-> <<[title |-> Some("Employee of the Month"), issuer |-> Some("ABC Pvt. Ltd.")],
                  [title |-> Some("National Scholarship"), issuer |-> Some("Government"),
                   type |-> Some("National")]>>]

UnknownPositionRecord ==
    [publications |-> <<[title |-> Some("Survey"), venue |-> Some("arXiv preprint"),
                         type |-> Some("Preprint"), author_position |-> None]>>]

Records == {EmptyDict, GraduateRecord, ResearcherRecord, PractitionerRecord,
            UnknownPositionRecord}

\* The configuration files of the scoring runs: accepted ones, and one the
\* loader rejects
ScoringConfigFiles ==
    {[exists |-> TRUE, suffix |-> ".yaml", content |-> ConfigWith(w)] :
        w \in {NoPublicationsWeights, EducationOnlyWeights, SkewedWeights}}
    \cup {[exists |-> TRUE, suffix |-> ".yaml",
           content |-> ConfigWith(Drift(EqualWeights, MaxDrift))]}

InitScore ==
    /\ round_up \in TieDirections
    /\ aggregator = None
    /\ scored = <<>>
    /\ batch = <<>>
    /\ RankUnused /\ CompareUnused /\ ConfigUnused /\ MetricsUnused /\ MappingUnused /\ IngestUnused

\* config = ConfigLoader(config_path); aggregator = ScoreAggregator(config):
\* an exception of the loader leaves no aggregator
NewScoreAggregator(file) ==
    /\ aggregator = None
    /\ aggregator' = IF ConfigLoaderOutcome(file) = "ok"
                     THEN Some(ScoreAggregator(file.content)) ELSE None
    /\ UNCHANGED <<round_up, scored, batch, rankVars, cmpVars, cfgVars, metricVars, mappingVars, ingestVars>>

\* aggregator.calculate_final_score(cv_data), one record of the scoring loop
ScoreRecord(cv_data) ==
    /\ aggregator # None
    /\ Len(scored) < MaxCalls
    /\ scored' = Append(scored,
            [cv_data |-> cv_data, config |-> The(aggregator).config] @@
            calculate_final_score(The(aggregator), cv_data, round_up))
    /\ UNCHANGED <<round_up, aggregator, batch, rankVars, cmpVars, cfgVars, metricVars, mappingVars, ingestVars>>

NextScore ==
    \/ \E file \in ScoringConfigFiles : NewScoreAggregator(file)
    \/ \E cv_data \in Records : ScoreRecord(cv_data)

SpecScore == InitScore /\ [][NextScore]_vars

\* The calls that returned a ScoringResult
Returns == {i \in 1..Len(scored) : scored[i].raised = "ok"}

\* C1: every ScoringResult returned has 0 <= final_score <= 1 and its
\* final_score_percentage is its final_score * 100.
C1_ScoreInRangeAndPercentageAgrees ==
    \A i \in Returns :
        LET results == The(scored[i].results)
        IN  /\ 0 <= results.final_score
            /\ results.final_score <= 10000
            /\ results.final_score_percentage * 10000 = results.final_score * 100 * 100

-----------------------------------------------------------------------------
(* Scoring each record of a collection on its own run:                     *)
(* pipeline_04_scoring.py:48, :64-67 with one file in the directory        *)

\* One award with the given type, title and issuer; "" stands for a field the
\* extraction left out
AwardRecord(type, title, issuer) ==
    LET present == {k \in {"type", "title", "issuer"} :
                        [type |-> type, title |-> title, issuer |-> issuer][k] # ""}
    IN  [awards |-> <<[k \in present |->
                        Some([type |-> type, title |-> title, issuer |-> issuer][k])]>>]

AwardTypes == {"", "Research Grant", "National Research Award", "International Prize",
               "Community Service"}

AwardTitles == {"Award for Excellence", "Certificate of Participation"}

AwardIssuers == {"", "IEEE Computer Society", "City Council"}

AwardRecords ==
    {AwardRecord(type, title, issuer) :
        type \in AwardTypes, title \in AwardTitles, issuer \in AwardIssuers}

\* Records with education entries only
MastersRecord ==
    [education |-> <<[degree |-> Some("MSc"), gpa |-> Some(360), scale |-> Some(400)]>>]

DoctorRecord ==
    [education |-> <<[degree |-> Some("PhD"), field |-> Some("Physics"),
                      university |-> Some("Stanford University"), gpa |-> Some(400),
                      scale |-> Some(400)],
                     [degree |-> Some("BSc"), field |-> Some("Physics"),
                      university |-> Some("University of Lahore"), gpa |-> Some(0),
                      scale |-> Some(400)]>>,
     experience |-> <<>>, publications |-> <<>>, awards |-> <<>>]

\* A record whose lists are all present and empty
BlankRecord == [education |-> <<>>, experience |-> <<>>, publications |-> <<>>, awards |-> <<>>]

\* A record whose experience list holds the jobs with the given titles, in
\* the given order
CareerRecord(titles) ==
    [experience |-> [i \in 1..Len(titles) |->
        [title |-> Some(titles[i]), org |-> Some("ABC Pvt. Ltd."),
         duration_months |-> Some(12), domain |-> Some("Finance")]]]

CareerRecords ==
    {CareerRecord(<<"Director", "Analyst", "Engineer">>),
     CareerRecord(<<"Intern", "Engineer", "Senior Engineer", "Consultant">>)}

\* A record whose grade point average is above its scale
OverScaleRecord ==
    [education |-> <<[degree |-> Some("BSc"), university |-> Some("MIT"),
                      gpa |-> Some(450), scale |-> Some(400)]>>]

\* Records with one publication each, of the given author position, and one
\* whose publication names no position
AuthorPositions == {-2, 0, 4, 6}

AuthorPositionRecord(position) ==
    [publications |-> <<[title |-> Some("Survey"), venue |-> Some("Local Workshop"),
                         type |-> Some("Conference"), author_position |-> Some(position)]>>]

NoPositionRecord ==
    [publications |-> <<[title |-> Some("Survey"), venue |-> Some("Local Workshop"),
                         type |-> Some("Conference")]>>]

PublicationRecords ==
    {AuthorPositionRecord(position) : position \in AuthorPositions} \cup {NoPositionRecord}

\* Records with one education entry each, of the given degree
DegreeRecord(degree) ==
    [education |-> <<[degree |-> Some(degree), gpa |-> Some(360), scale |-> Some(400)]>>]

DegreeRecords ==
    {DegreeRecord(degree) :
        degree \in {"Ph.D. in Physics", "Doctoral Studies", "MPhil", "MA Economics", "Diploma"}}

RecordCollection ==
    Records \cup AwardRecords \cup CareerRecords \cup PublicationRecords \cup DegreeRecords
        \cup {MastersRecord, DoctorRecord, BlankRecord, OverScaleRecord}

\* The scoring run of a directory that holds one record
ScoreOnly(cv_data) ==
    /\ scored = <<>>
    /\ ScoreRecord(cv_data)

NextScoreEach ==
    \/ \E file \in ScoringConfigFiles : NewScoreAggregator(file)
    \/ \E cv_data \in RecordCollection : ScoreOnly(cv_data)

SpecScoreEach == InitScore /\ [][NextScoreEach]_vars

\* The record has education entries and no experience, publications or awards
EducationOnly(cv_data) ==
    /\ Items(cv_data, "education") # <<>>
    /\ Items(cv_data, "experience") = <<>>
    /\ Items(cv_data, "publications") = <<>>
    /\ Items(cv_data, "awards") = <<>>

\* x (a final score in 1e-4) is y (in 1e-7) rounded to 4 decimals
IsRounded4(x, y) == Abs(x * ((Unit * WUnit) \div 10000) - y) * 2 <= (Unit * WUnit) \div 10000

\* The education score (1e-5) of the i-th call
EducationScoreOf(i) ==
    EducationScorer(scored[i].config, MappingUtils, scored[i].cv_data, round_up["criterion"]).score

\* C11 as stated: for a record with education entries but no experience,
\* publications or awards, every criterion score other than education is 0 and
\* final_score is education_score * education_weight.
C11_OnlyEducationCounts ==
    \A i \in Returns :
        EducationOnly(scored[i].cv_data) =>
            LET results == The(scored[i].results)
                criterion_scores == results.criterion_scores
            IN  /\ \A c \in Criteria \ {"education"} : criterion_scores[c].score = 0
                /\ IsRounded4(results.final_score,
                              EducationScoreOf(i) * criterion_scores["education"].weight)

\* C11 amended: for such a record the experience, publications and awards
\* scores are 0, the coherence score is the neutral 0.5, and final_score is
\* education_score * education_weight + 0.5 * coherence_weight, clamped to
\* [0, 1] (and rounded to 4 decimals).
C11_EducationAndNeutralCoherence ==
    \A i \in Returns :
        EducationOnly(scored[i].cv_data) =>
            LET results == The(scored[i].results)
                criterion_scores == results.criterion_scores
            IN  /\ \A c \in {"experience", "publications", "awards_other"} :
                        criterion_scores[c].score = 0
                /\ criterion_scores["coherence"].score = 5000
                /\ IsRounded4(results.final_score,
                        Clamp01(EducationScoreOf(i) * criterion_scores["education"].weight
                                + (Unit \div 2) * criterion_scores["coherence"].weight,
                                Unit * WUnit))

\* The masters-only record scored under weights that count coherence
C11_Witness ==
    \E i \in Returns :
        /\ scored[i].cv_data = MastersRecord
        /\ scored[i].config.weights = NoPublicationsWeights
        /\ The(scored[i].results).criterion_scores["education"].score > 0
        /\ The(scored[i].results).final_score * 1000
              > EducationScoreOf(i) * NoPublicationsWeights["education"] + 500

\* The per-award score (in tenths) as C13 states it, from the lower-case
\* type, title and issuer of the award
ClaimedAwardScore(award) ==
    LET type == LowerField(award, "type")
        HasAny(text, keywords) == \E k \in keywords : Contains(text, k)
        base == IF HasAny(type, {"national", "international"}) THEN 8
                ELSE IF HasAny(type, {"research", "academic", "professional"}) THEN 6
                ELSE 3
        title_bonus == IF HasAny(LowerField(award, "title"), Range(PrestigiousKeywords))
                       THEN 2 ELSE 0
        issuer_bonus == IF HasAny(LowerField(award, "issuer"), Range(PrestigiousIssuers))
                        THEN 1 ELSE 0
    IN  Min(10, base + title_bonus + issuer_bonus)

\* C13: the awards score of a record with n awards is
\* ln(1 + total) / ln(1 + 1.5 n), where total is the sum of the per-award
\* scores as stated: base 0.3, 0.6 for a research/academic/professional type,
\* 0.8 for a national/international type (0.8 wins), +0.2 for a prestige
\* keyword in the title, +0.1 for a prestige issuer, capped at 1.0 per award.
\* One research award titled with "excellence" has total 0.8.
C13_PerAwardScore ==
    \A i \in Returns :
        LET awards_items == Items(scored[i].cv_data, "awards")
            total == SumOver([k \in 1..Len(awards_items) |->
                                ClaimedAwardScore(awards_items[k])],
                             1..Len(awards_items))
            awards_other == The(scored[i].results).criterion_scores["awards_other"]
        IN  /\ awards_items # <<>> =>
                  awards_other.score
                    = Round4(Min(Unit, LogNormalized[Len(awards_items)][total + 1]),
                             round_up["criterion"])
            /\ scored[i].cv_data = AwardRecord("Research Grant", "Award for Excellence", "") =>
                  total = 8

\* The research award titled with "excellence" was scored: ln(1.8) / ln(2.5)
C13_Witness ==
    \E i \in Returns :
        /\ scored[i].cv_data = AwardRecord("Research Grant", "Award for Excellence", "")
        /\ The(scored[i].results).criterion_scores["awards_other"].score = 6415

\* C14: a scorer whose item list is empty or absent does not raise, and
\* returns has_data = false with a fixed score: 0.0 for education,
\* experience, publications and awards, and 0.5 for coherence when the
\* record has no experience items.
C14_EmptySectionsScoreFixed ==
    \A i \in 1..Len(scored) :
        LET cv_data == scored[i].cv_data
            Empty(section) == Items(cv_data, section) = <<>>
            Fixed(criterion, score) ==
                i \in Returns =>
                    LET returned == The(scored[i].results).criterion_scores[criterion]
                    IN  /\ returned.score = score
                        /\ returned.details.has_data = FALSE
        IN  /\ Empty("education") =>
                    EducationRaises(cv_data) = "ok" /\ Fixed("education", 0)
            /\ Empty("experience") =>
                    /\ ExperienceRaises(scored[i].config, cv_data) = "ok"
                    /\ Fixed("experience", 0)
                    /\ CoherenceRaises(cv_data) = "ok"
                    /\ Fixed("coherence", 5000)
            /\ Empty("publications") =>
                    PublicationRaises(cv_data) = "ok" /\ Fixed("publications", 0)
            /\ Empty("awards") =>
                    AwardsRaises(cv_data) = "ok" /\ Fixed("awards_other", 0)

\* A record with no list at all, one with four empty lists, and one with an
\* education list only have been scored
C14_Witness ==
    /\ scored # <<>>
    /\ scored[1].raised = "ok"
    /\ scored[1].cv_data \in {EmptyDict, BlankRecord, MastersRecord}
    /\ The(scored[1].results).criterion_scores["coherence"].score = 5000
    /\ The(scored[1].results).criterion_scores["awards_other"].details.has_data = FALSE

\* C15: the details every one of the five scorers returns, for a record with
\* or without data for the criterion, contain the four keys sub_scores,
\* has_data, evidence and breakdown.
C15_DetailsCarryFourKeys ==
    \A i \in Returns :
        \A criterion \in DOMAIN The(scored[i].results).criterion_scores :
            {"sub_scores", "has_data", "evidence", "breakdown"}
                \subseteq DOMAIN The(scored[i].results).criterion_scores[criterion].details

\* The seniority levels of the experience entries of a record, in input order
SeniorityLevels(cv_data) ==
    [i \in 1..Len(Items(cv_data, "experience")) |->
        get_seniority_level_numeric(The(Field(Items(cv_data, "experience")[i], "title", "")))]

\* The fraction, in 1e-3, of the adjacent pairs (i, i + 1) of levels that
\* satisfy Counts
FractionOfPairs(levels, Counts(_, _)) ==
    Round3(Ratio(Cardinality({i \in 1..(Len(levels) - 1) : Counts(levels[i], levels[i + 1])}),
                 Len(levels) - 1), FALSE)

\* The progression sub-score a call returned
ProgressionOf(i) ==
    The(scored[i].results).criterion_scores["coherence"].details.sub_scores.progression

\* C21 as stated: with two or more experience entries, progression is the
\* fraction of adjacent pairs, in input order, whose later entry (i + 1) is at
\* least as senior as the earlier entry (i).
C21_LaterEntryAtLeastAsSenior ==
    \A i \in Returns :
        Len(Items(scored[i].cv_data, "experience")) >= 2 =>
            ProgressionOf(i) = FractionOfPairs(SeniorityLevels(scored[i].cv_data),
                                               LAMBDA first, second : second >= first)

\* C21 amended: with two or more experience entries, progression is the
\* fraction of adjacent pairs, in input order, whose first entry (i) is at
\* least as senior as the entry after it (i + 1): the list is read as most
\* recent job first.
C21_FirstEntryAtLeastAsSenior ==
    \A i \in Returns :
        Len(Items(scored[i].cv_data, "experience")) >= 2 =>
            ProgressionOf(i) = FractionOfPairs(SeniorityLevels(scored[i].cv_data),
                                               LAMBDA first, second : first >= second)

\* A record with four jobs of levels 1, 2, 3, 2 was scored: one pair in three
\* counts
C21_Witness ==
    \E i \in Returns :
        /\ SeniorityLevels(scored[i].cv_data) = <<1, 2, 3, 2>>
        /\ ProgressionOf(i) = 333

\* C23: every value of the sub_scores of every criterion of every result
\* returned lies in [0, 1] (sub-scores are in 1e-3).
C23_SubScoresInUnitInterval ==
    \A i \in Returns :
        \A criterion \in DOMAIN The(scored[i].results).criterion_scores :
            LET details == The(scored[i].results).criterion_scores[criterion].details
            IN  "sub_scores" \in DOMAIN details =>
                    \A name \in DOMAIN details.sub_scores :
                        0 <= details.sub_scores[name] /\ details.sub_scores[name] <= 1000

\* The score the description gives one author position (None: unknown), in 1e-5
DescribedPositionScore(config, position) ==
    IF position = None THEN 2 * (Unit \div 10)
    ELSE IF The(position) = 1 THEN Min(Unit, Unit + get_policy(config, "first_author_bonus"))
    ELSE IF The(position) = 2
    THEN Min(Unit, 8 * (Unit \div 10) + get_policy(config, "second_author_bonus"))
    ELSE IF The(position) \in 3..5 THEN 6 * (Unit \div 10) - (The(position) - 3) * (Unit \div 10)
    ELSE 2 * (Unit \div 10)

\* C24: scoring a record with publications raises nothing, and the
\* author_position sub-score is the mean over the publications of: the
\* capped first- and second-author scores for positions 1 and 2,
\* 0.6 - (position - 3) * 0.1 for positions 3 to 5 only, and 0.2 for every
\* other position and for an absent or null position.
C24_AuthorPositionByCases ==
    \A i \in 1..Len(scored) :
        LET publication_items == Items(scored[i].cv_data, "publications")
            all == 1..Len(publication_items)
            described == [j \in all |->
                DescribedPositionScore(scored[i].config,
                                       FieldOrNone(publication_items[j], "author_position"))]
        IN  publication_items # <<>> =>
                /\ scored[i].raised = "ok"
                /\ \E up \in BOOLEAN :
                     The(scored[i].results).criterion_scores["publications"]
                            .details.sub_scores["author_position"]
                        = Round3(Mean(SumOver(described, all), Cardinality(all)), up)

\* The weighted combination of the education sub-scores before any bonus
\* (education_scorer.py:33-37), in 1e-7
EducationBeforeBonus(config, mapping_utils, education_items) ==
    LET subweights == get_subweights(config, "education")
    IN  calculate_gpa_score(education_items) * Get(subweights, "gpa", 50)
        + calculate_degree_score(education_items) * Get(subweights, "degree_level", 20)
        + calculate_university_score(mapping_utils, education_items)
            * Get(subweights, "university_tier", 30)

\* The highest level get_degree_level_score gives an entry of the record
HighestDegreeLevel(cv_data) ==
    SetMax({get_degree_level_score(Field(Items(cv_data, "education")[j], "degree", "")) :
                j \in 1..Len(Items(cv_data, "education"))})

\* C28: the education score of a record with an entry resolved to the
\* Doctorate level is the clamped combination plus phd_bonus, and that of a
\* record whose highest resolved level is Master is the clamped combination
\* plus masters_bonus.
C28_BonusFollowsResolvedLevel ==
    \A i \in Returns :
        LET education_items == Items(scored[i].cv_data, "education")
            level == HighestDegreeLevel(scored[i].cv_data)
            bonus == IF level = 3 THEN get_policy(scored[i].config, "phd_bonus")
                     ELSE get_policy(scored[i].config, "masters_bonus")
            before == EducationBeforeBonus(scored[i].config, MappingUtils, education_items)
        IN  (education_items # <<>> /\ level >= 2) =>
                \E up \in BOOLEAN :
                    The(scored[i].results).criterion_scores["education"].score
                        = Round4(AsScore(Clamp01(before + bonus * WUnit, Unit * WUnit)), up)

-----------------------------------------------------------------------------
(* The batch scoring run: PIPELINE_04_SCORING,                             *)
(* src/cv_assistant/pipeline/pipeline_04_scoring.py:20-109                 *)

\* A file of json_dir: what json.load makes of it ("ok" and the record, or
\* the exception it raises) and what writing its scored file does
JsonFile(load, cv_data, save) == [load |-> load, cv_data |-> cv_data, save |-> save]

\* A record without any section, a file that is not JSON, a record whose
\* publication makes the scorers raise, and a record with four empty lists
\* whose scored file cannot be written
JsonFileKinds ==
    {JsonFile("ok", EmptyDict, "ok"),
     JsonFile("JSONDecodeError", EmptyDict, "ok"),
     JsonFile("ok", UnknownPositionRecord, "ok"),
     JsonFile("ok", BlankRecord, "OSError")}

\* json_file.stem of the i-th file of the directory
StemOf(i) == "cv" \o ToString(i)

\* list(json_dir.glob("*.json")): up to MaxFiles files with distinct names
JsonDirectories ==
    {[i \in 1..Len(kinds) |-> [stem |-> StemOf(i)] @@ kinds[i]] :
        kinds \in SeqsUpTo(JsonFileKinds, MaxFiles)}

\* The configuration file get_aggregator() loads: an accepted one, or one the
\* loader rejects
DefaultConfigFiles ==
    {[exists |-> TRUE, suffix |-> ".yaml", content |-> ConfigWith(EqualWeights)],
     [exists |-> TRUE, suffix |-> ".yaml",
      content |-> ConfigWith(Drift(EqualWeights, MaxDrift))]}

\* scoring_results["cv_filename"] = json_file.stem;
\* scoring_results["cv_path"] = str(json_file)
WithMetadata(results, stem) ==
    [k \in (DOMAIN results) \cup {"cv_filename", "cv_path"} |->
        IF k = "cv_filename" THEN stem
        ELSE IF k = "cv_path" THEN stem \o ".json"
        ELSE results[k]]

\* The exception the body of the try block raises on a file, or "ok": loading
\* (line 64), scoring (line 67, with the outcome given), saving the scored
\* file (line 85)
IterationRaises(file, outcome) ==
    IF file.load # "ok" THEN file.load
    ELSE IF outcome.raised # "ok" THEN outcome.raised
    ELSE file.save

InitBatch ==
    /\ round_up \in TieDirections
    /\ aggregator = None
    /\ scored = <<>>
    /\ \E files \in JsonDirectories :
          batch = [pc |-> "glob", files |-> files, index |-> 1,
                   all_scored_results |-> <<>>, summary |-> None, returned |-> None]
    /\ RankUnused /\ CompareUnused /\ ConfigUnused /\ MetricsUnused /\ MappingUnused /\ IngestUnused

\* Lines 39-45: an empty directory returns [] at once
ListFiles ==
    /\ batch.pc = "glob"
    /\ batch' = IF batch.files = <<>>
                THEN [batch EXCEPT !.pc = "done", !.returned = Some(<<>>)]
                ELSE [batch EXCEPT !.pc = "init"]
    /\ UNCHANGED <<round_up, aggregator, scored, rankVars, cmpVars, cfgVars, metricVars, mappingVars, ingestVars>>

\* Lines 48-53: get_aggregator() and get_config(); an exception of the loader
\* leaves PIPELINE_04_SCORING
GetAggregator(file) ==
    /\ batch.pc = "init"
    /\ IF ConfigLoaderOutcome(file) = "ok"
       THEN /\ aggregator' = Some(ScoreAggregator(file.content))
            /\ batch' = [batch EXCEPT !.pc = "loop"]
       ELSE /\ aggregator' = None
            /\ batch' = [batch EXCEPT !.pc = "raised"]
    /\ UNCHANGED <<round_up, scored, rankVars, cmpVars, cfgVars, metricVars, mappingVars, ingestVars>>

\* mutant of AfterIteration: no try block, the exception leaves the loop
AfterIterationWithoutTry(run, file, outcome) ==
    IF IterationRaises(file, outcome) = "ok"
    THEN [run EXCEPT !.index = @ + 1,
                     !.all_scored_results =
                        Append(@, WithMetadata(The(outcome.results), file.stem))]
    ELSE [run EXCEPT !.pc = "raised"]

\* What one iteration of the loop makes of the run, given what
\* calculate_final_score does on the file's record: the results get their
\* metadata and are appended, or an exception anywhere in the try block skips
\* the file
AfterIteration(run, file, outcome) ==
    IF IterationRaises(file, outcome) = "ok"
    THEN [run EXCEPT !.index = @ + 1,
                     !.all_scored_results =
                        Append(@, WithMetadata(The(outcome.results), file.stem))]
    ELSE [run EXCEPT !.index = @ + 1]

\* Lines 61-96, one iteration of the loop: the file is loaded, scored, given
\* its metadata, saved and appended, or skipped
ScoreFile ==
    /\ batch.pc = "loop"
    /\ batch.index <= Len(batch.files)
    /\ batch' = AfterIteration(batch, batch.files[batch.index],
                               calculate_final_score(The(aggregator),
                                                     batch.files[batch.index].cv_data,
                                                     round_up))
    /\ UNCHANGED <<round_up, aggregator, scored, rankVars, cmpVars, cfgVars, metricVars, mappingVars, ingestVars>>

\* Lines 98-105: the summary is written when the loop is over
WriteSummary ==
    /\ batch.pc = "loop"
    /\ batch.index > Len(batch.files)
    /\ batch' = [batch EXCEPT
                    !.pc = "return",
                    !.summary = Some([total_cvs_scored |-> Len(batch.all_scored_results),
                                      config_used |-> The(aggregator).config,
                                      scores |-> batch.all_scored_results])]
    /\ UNCHANGED <<round_up, aggregator, scored, rankVars, cmpVars, cfgVars, metricVars, mappingVars, ingestVars>>

\* Line 109
ReturnResults ==
    /\ batch.pc = "return"
    /\ batch' = [batch EXCEPT !.pc = "done", !.returned = Some(batch.all_scored_results)]
    /\ UNCHANGED <<round_up, aggregator, scored, rankVars, cmpVars, cfgVars, metricVars, mappingVars, ingestVars>>

NextBatch ==
    \/ ListFiles
    \/ \E file \in DefaultConfigFiles : GetAggregator(file)
    \/ ScoreFile
    \/ WriteSummary
    \/ ReturnResults

SpecBatch == InitBatch /\ [][NextBatch]_vars

\* The run is single-threaded and nothing in it blocks: a step that can be
\* taken is taken
SpecBatchFair == SpecBatch /\ WF_vars(NextBatch)

\* The files among the first n of the directory on which neither loading nor
\* scoring nor saving raises, in the order of the directory
FilesThatDidNotRaise(n) ==
    SelectSeq(SubSeq(batch.files, 1, n),
              LAMBDA file :
                /\ file.load = "ok"
                /\ ScoringRaises(The(aggregator).config, file.cv_data) = "ok"
                /\ file.save = "ok")

\* all_scored_results holds one result for each of the first n files that did
\* not raise, in order, each under its file's name
HoldsFirst(results, n) ==
    /\ Len(results) = Len(FilesThatDidNotRaise(n))
    /\ \A i \in 1..Len(results) :
          /\ results[i].cv_filename = FilesThatDidNotRaise(n)[i].stem
          /\ results[i].final_score =
                The(calculate_final_score(The(aggregator), FilesThatDidNotRaise(n)[i].cv_data,
                                          round_up).results).final_score

\* In the loop, after the files before index; the written summary and the
\* returned list after all files
BatchKeepsWhatDidNotRaise ==
    /\ batch.pc = "loop" => HoldsFirst(batch.all_scored_results, batch.index - 1)
    /\ batch.summary # None =>
          /\ HoldsFirst(The(batch.summary).scores, Len(batch.files))
          /\ The(batch.summary).total_cvs_scored = Len(The(batch.summary).scores)
    /\ (batch.returned # None /\ batch.files # <<>>) =>
          /\ batch.summary # None
          /\ The(batch.returned) = The(batch.summary).scores

\* C19: in the batch scoring loop a file whose loading or scoring raises is
\* skipped and the others are still scored: the returned list and the
\* written summary hold exactly the results of the files that did not raise,
\* in processing order; and a run that entered the loop writes the summary.
C19_BatchToleratesFailures ==
    /\ []BatchKeepsWhatDidNotRaise
    /\ (batch.pc = "loop") ~> (batch.summary # None)

\* A run over three files, the first malformed, the second raising in the
\* scorers, the third scored, returned the third only
C19_Witness ==
    /\ batch.pc = "done"
    /\ Len(batch.files) = 3
    /\ batch.files[1].load # "ok"
    /\ batch.files[2].load = "ok"
    /\ ScoringRaises(The(aggregator).config, batch.files[2].cv_data) # "ok"
    /\ Len(The(batch.returned)) = 1
    /\ The(batch.returned)[1].cv_filename = "cv3"
    /\ The(batch.summary).total_cvs_scored = 1

-----------------------------------------------------------------------------
(* The catalogue lookups called directly: MappingUtils.get_university_tier_score,
   get_journal_if and get_venue_quality_score on the names below, over each of
   the catalogues below *)

MaxLookups == 1        \* at most MaxLookups lookups are made in a behaviour

\* The catalogue above with its tiers and journals listed the other way round
ReorderedCatalogue ==
    MappingUtilsOf(<< UniversityTiersJson[2], UniversityTiersJson[1], UniversityTiersJson[3] >>,
                   [default_if |-> 100, journals |-> << <<"IEEE Access", 390>>, <<"Nature", 4000>> >>],
                   << VenueQualityJson[3], VenueQualityJson[2], VenueQualityJson[1],
                      VenueQualityJson[4] >>)

\* A catalogue with other scores and defaults, whose top tiers come last
RescoredCatalogue ==
    MappingUtilsOf(<< <<"default_tier", [score |-> 20000]>>,
                      <<"tier_3", [score |-> 40000, universities |-> <<"University of Lahore">>]>>,
                      <<"tier_1", [score |-> 90000, universities |-> <<"Stanford University", "MIT">>]>> >>,
                   [default_if |-> 50, journals |-> << <<"IEEE Access", 350>>, <<"Nature", 5000>> >>],
                   << <<"default_venue", [score |-> 10000]>>,
                      <<"tier_2", [score |-> 50000, venues |-> <<"COLING">>]>>,
                      <<"preprints", [score |-> 25000, venues |-> <<"arXiv">>]>>,
                      <<"tier_1", [score |-> 90000, venues |-> <<"NeurIPS", "ACL">>]>> >>)

Catalogues == {MappingUtils, ReorderedCatalogue, RescoredCatalogue}

\* The names looked up: exact matches in another case, misspellings, names
\* that hold a catalogue key among other words, names that hold two catalogue
\* keys, names with a preprint keyword, and names unlike every key.
LookupNames ==
    {"mit", "University of Lahor", "Lahore School of Economics", "University",
     "Unknown College", "ACL 2023", "ACL preprint", "SSRN Working Paper",
     "ACL COLING Joint", "Nature Communications", "Nature IEEE Access", "ARXIV"}

InitLookup ==
    /\ lookups \in {[mapping_utils |-> m, calls |-> <<>>] : m \in Catalogues}
    /\ RankUnused /\ CompareUnused /\ ConfigUnused /\ MetricsUnused /\ ScoreUnused
    /\ IngestUnused

\* One more call, of the given lookup, recorded with what it returned
LookedUp(kind, name, value) ==
    [lookups EXCEPT !.calls = Append(@, [kind |-> kind, name |-> name, value |-> value])]

LookupUniversity ==
    /\ Len(lookups.calls) < MaxLookups
    /\ \E name \in LookupNames :
         lookups' = LookedUp("university", name,
                           get_university_tier_score(lookups.mapping_utils, Some(name)))
    /\ UNCHANGED <<rankVars, cmpVars, cfgVars, metricVars, scoreVars, ingestVars>>

LookupJournal ==
    /\ Len(lookups.calls) < MaxLookups
    /\ \E name \in LookupNames :
         lookups' = LookedUp("journal", name, get_journal_if(lookups.mapping_utils, Some(name)))
    /\ UNCHANGED <<rankVars, cmpVars, cfgVars, metricVars, scoreVars, ingestVars>>

LookupVenue ==
    /\ Len(lookups.calls) < MaxLookups
    /\ \E name \in LookupNames :
         lookups' = LookedUp("venue", name,
                           get_venue_quality_score(lookups.mapping_utils, Some(name)))
    /\ UNCHANGED <<rankVars, cmpVars, cfgVars, metricVars, scoreVars, ingestVars>>

NextLookup == LookupUniversity \/ LookupJournal \/ LookupVenue

SpecLookup == InitLookup /\ [][NextLookup]_vars

\* The catalogue of a kind of lookup as <<key, score>> pairs in the order the
\* lookup scans them, and its default.
CatalogueOf(kind) ==
    IF kind = "university" THEN lookups.mapping_utils.university_lookup
    ELSE IF kind = "journal" THEN lookups.mapping_utils.journal_if.journals
    ELSE lookups.mapping_utils.venue_lookup

CatalogueDefault(kind) ==
    IF kind = "university" THEN Lookup(lookups.mapping_utils.university_tiers, "default_tier").score
    ELSE IF kind = "journal" THEN lookups.mapping_utils.journal_if.default_if
    ELSE Lookup(lookups.mapping_utils.venue_quality, "default_venue").score

SimilarityTo(kind, name, i) == token_set_ratio(lower(name), lower(CatalogueOf(kind)[i][1]))

HasExactMatch(kind, name) ==
    \E i \in 1..Len(CatalogueOf(kind)) : lower(CatalogueOf(kind)[i][1]) = lower(name)

\* The first key, in scan order, among those of the highest similarity
MostSimilar(kind, name) ==
    CHOOSE i \in 1..Len(CatalogueOf(kind)) :
        /\ \A j \in 1..Len(CatalogueOf(kind)) : SimilarityTo(kind, name, j) <= SimilarityTo(kind, name, i)
        /\ \A j \in 1..(i - 1) : SimilarityTo(kind, name, j) < SimilarityTo(kind, name, i)

\* The score of the most similar key when its similarity is above 85, the
\* default otherwise
BestOrDefault(kind, name) ==
    IF SimilarityTo(kind, name, MostSimilar(kind, name)) > 85
    THEN CatalogueOf(kind)[MostSimilar(kind, name)][2]
    ELSE CatalogueDefault(kind)

NamesPreprint(name) == AnyKeywordIn(PreprintKeywords, lower(name))

\* C22 as stated: a name without an exact case-insensitive match gets, from
\* each of the three lookups, the score of the most similar catalogue key
\* (the first in scan order on a tie) when that similarity is above 85 and
\* the catalogue default otherwise.
C22_FuzzyBestOrDefault ==
    \A i \in 1..Len(lookups.calls) :
        LET call == lookups.calls[i]
        IN  ~HasExactMatch(call.kind, call.name)
                => call.value = BestOrDefault(call.kind, call.name)

\* C22 amended: the same, except that the venue lookup gives a name without
\* an exact match that contains a preprint keyword the preprints score,
\* before any fuzzy matching.
C22_FuzzyBestOrDefaultAfterPreprints ==
    \A i \in 1..Len(lookups.calls) :
        LET call == lookups.calls[i]
        IN  ~HasExactMatch(call.kind, call.name)
                => call.value =
                     IF call.kind = "venue" /\ NamesPreprint(call.name)
                     THEN Lookup(lookups.mapping_utils.venue_quality, "preprints").score
                     ELSE BestOrDefault(call.kind, call.name)

\* A name was looked up that has no exact match and is equally similar,
\* above 85, to two keys of different scores, and got the score of the first.
C22_Witness ==
    \E i \in 1..Len(lookups.calls) :
        LET call == lookups.calls[i]
        IN  /\ ~HasExactMatch(call.kind, call.name)
            /\ \E j, k \in 1..Len(CatalogueOf(call.kind)) :
                 /\ j < k
                 /\ SimilarityTo(call.kind, call.name, j) > 85
                 /\ SimilarityTo(call.kind, call.name, j) = SimilarityTo(call.kind, call.name, k)
                 /\ CatalogueOf(call.kind)[j][2] # CatalogueOf(call.kind)[k][2]
                 /\ call.value = CatalogueOf(call.kind)[j][2]

-----------------------------------------------------------------------------
(* The ingestion loop: src/cv_assistant/pipeline/main.py, with
   pipeline_01_cleaner.py and pipeline_02_handling_cleaner.py *)

MaxIngest == 3         \* the raw-data directory holds at most MaxIngest documents

\* hashlib.sha256 of a file's bytes, as the hexadecimal digest (shortened);
\* contents are numbered
Sha256Table == <<"9f86d081", "60303ae2", "fd61a03a", "a4e624d6">>

_hash_file(content) == Sha256Table[content]

\* The documents of the model: a CV, a copy of it under another name, the same
\* CV as a Word file, a second CV, a scanned page without text, a CV stored
\* under its own digest, and a CV on which the extraction step raises.
\* loader: whether PyMuPDFLoader raises (the OCR path is taken then).
RawFiles ==
    {[stem |-> "alice", suffix |-> ".pdf", content |-> 1, text |-> "cv", loader |-> "ok",
      extraction |-> "ok"],
     [stem |-> "alice_copy", suffix |-> ".pdf", content |-> 1, text |-> "cv", loader |-> "ok",
      extraction |-> "ok"],
     [stem |-> "bob", suffix |-> ".docx", content |-> 2, text |-> "cv", loader |-> "ok",
      extraction |-> "ok"],
     [stem |-> "scan", suffix |-> ".pdf", content |-> 3, text |-> "", loader |-> "raises",
      extraction |-> "ok"],
     [stem |-> "60303ae2", suffix |-> ".pdf", content |-> 2, text |-> "cv", loader |-> "ok",
      extraction |-> "ok"],
     [stem |-> "carol", suffix |-> ".pdf", content |-> 4, text |-> "cv", loader |-> "ok",
      extraction |-> "raises"]}

\* list_cv_files(ENV.RAW_DATA_DIR): the documents of the directory, in the
\* order iterdir() yields them
RawDirectories ==
    {files \in SeqsUpTo(RawFiles, MaxIngest) :
        \A i, j \in 1..Len(files) : i # j => files[i] # files[j]}

\* PIPELINE_01_PDFLOADER: the cleaning log of a document.  The file name logged
\* is the stem for a PDF that PyMuPDFLoader reads and the full name otherwise.
PIPELINE_01_PDFLOADER(file) ==
    LET unknown == strip(file.text) = ""
    IN  [filename |-> IF file.suffix = ".pdf" /\ file.loader = "ok" THEN file.stem
                      ELSE file.stem \o file.suffix,
         file_type |-> IF file.suffix = ".pdf" THEN "pdf" ELSE "docx",
         hash |-> _hash_file(file.content),
         ocr_used |-> file.suffix = ".pdf" /\ file.loader # "ok",
         zero_text |-> unknown,
         language |-> IF unknown THEN "unknown" ELSE "en",
         issue |-> (IF unknown THEN <<"Unknown language", "Zero text">> ELSE <<>>),
         has_issue |-> unknown]

\* PIPELINE_02_HANDLING_CLEANER: the log goes to cleaning_logs.jsonl, and to
\* error_logs.jsonl when it has an issue
PIPELINE_02_HANDLING_CLEANER(run, cleaning_log) ==
    [run EXCEPT !.all_logs = Append(@, cleaning_log),
                !.error_logs = IF cleaning_log.has_issue THEN Append(@, cleaning_log) ELSE @]

InitIngest ==
    /\ \E files \in RawDirectories :
          ingest = [pc |-> "loop", files |-> files, index |-> 1, seen_hashes |-> <<>>,
                    all_logs |-> <<>>, error_logs |-> <<>>, extracted |-> <<>>]
    /\ RankUnused /\ CompareUnused /\ ConfigUnused /\ MetricsUnused /\ ScoreUnused
    /\ MappingUnused

\* One iteration of the loop of main.py:34-56 on a document: the hash is
\* looked for among the keys of __SEEN_HASHES__, whose keys are file names
\* (line 39).  extracted lists the documents handed to
\* PIPELINE_03_CLEAN_TEXT_PARSER; an exception of that step ends the script.
AfterDocument(run, file) ==
    LET cleaning_log == PIPELINE_01_PDFLOADER(file)
        next == [run EXCEPT !.index = @ + 1]
    IN  IF ~HasKey(run.seen_hashes, cleaning_log.hash)
        THEN LET logged == PIPELINE_02_HANDLING_CLEANER(
                                [next EXCEPT !.seen_hashes =
                                    Put(@, cleaning_log.filename, cleaning_log.hash)],
                                cleaning_log)
             IN  IF cleaning_log.has_issue THEN logged
                 ELSE IF file.extraction # "ok"
                 THEN [logged EXCEPT !.pc = "raised",
                                     !.extracted = Append(@, cleaning_log.filename)]
                 ELSE [logged EXCEPT !.extracted = Append(@, cleaning_log.filename)]
        ELSE PIPELINE_02_HANDLING_CLEANER(next,
                [cleaning_log EXCEPT !.has_issue = TRUE,
                                     !.issue = Append(@, "Duplicate file")])

CleanDocument ==
    /\ ingest # <<>>
    /\ ingest.pc = "loop"
    /\ ingest.index <= Len(ingest.files)
    /\ ingest' = AfterDocument(ingest, ingest.files[ingest.index])
    /\ UNCHANGED <<rankVars, cmpVars, cfgVars, metricVars, scoreVars, mappingVars>>

\* The loop is over: the script goes on to the scoring run
EndOfDocuments ==
    /\ ingest # <<>>
    /\ ingest.pc = "loop"
    /\ ingest.index > Len(ingest.files)
    /\ ingest' = [ingest EXCEPT !.pc = "scoring"]
    /\ UNCHANGED <<rankVars, cmpVars, cfgVars, metricVars, scoreVars, mappingVars>>

NextIngest == CleanDocument \/ EndOfDocuments

SpecIngest == InitIngest /\ [][NextIngest]_vars

\* The j-th document processed has the hash of a document processed before it
RepeatsEarlierHash(j) ==
    \E i \in 1..(j - 1) : ingest.all_logs[i].hash = ingest.all_logs[j].hash

\* C25: in every state of the ingestion loop, a document whose hash is that
\* of a document processed earlier in the run is logged with has_issue and
\* 'Duplicate file', is in the error log and was not handed to extraction;
\* and no two documents handed to extraction have the same hash.
C25_DuplicatesNeverExtracted ==
    /\ \A j \in 1..Len(ingest.all_logs) :
         RepeatsEarlierHash(j) =>
            /\ ingest.all_logs[j].has_issue
            /\ "Duplicate file" \in Range(ingest.all_logs[j].issue)
            /\ ingest.all_logs[j] \in Range(ingest.error_logs)
            /\ ingest.all_logs[j].filename \notin Range(ingest.extracted)
    /\ \A i, j \in 1..Len(ingest.all_logs) :
         (/\ i # j
          /\ ingest.all_logs[i].filename \in Range(ingest.extracted)
          /\ ingest.all_logs[j].filename \in Range(ingest.extracted))
            => ingest.all_logs[i].hash # ingest.all_logs[j].hash

-----------------------------------------------------------------------------
(* Ranker: src/cv_assistant/ranking/ranker.py *)

\* x.get("final_score", 0): the sort key of ranker.py:30 and :62
FinalScoreOf(cv) == IF "final_score" \in DOMAIN cv THEN cv.final_score ELSE 0

\* Insert x into a list already sorted by descending key, after every element
\* whose key is >= x's key: Python's sorted(..., reverse=True) keeps the input
\* order of elements with equal keys.
RECURSIVE InsertDesc(_, _)
InsertDesc(sorted, x) ==
    IF sorted = <<>> THEN <<x>>
    ELSE IF FinalScoreOf(Head(sorted)) >= FinalScoreOf(x)
         THEN <<Head(sorted)>> \o InsertDesc(Tail(sorted), x)
         ELSE <<x>> \o sorted

\* The unstable variant: an element goes before the elements of equal key.
RECURSIVE InsertDescUnstable(_, _)
InsertDescUnstable(sorted, x) ==
    IF sorted = <<>> THEN <<x>>
    ELSE IF FinalScoreOf(Head(sorted)) > FinalScoreOf(x)
         THEN <<Head(sorted)>> \o InsertDescUnstable(Tail(sorted), x)
         ELSE <<x>> \o sorted

RECURSIVE SortedDescFrom(_, _)
SortedDescFrom(acc, rest) ==
    IF rest = <<>> THEN acc
    ELSE SortedDescFrom(InsertDesc(acc, Head(rest)), Tail(rest))

RECURSIVE SortedDescUnstableFrom(_, _)
SortedDescUnstableFrom(acc, rest) ==
    IF rest = <<>> THEN acc
    ELSE SortedDescUnstableFrom(InsertDescUnstable(acc, Head(rest)), Tail(rest))

\* mutant of SortedByFinalScore: ties come out in reverse input order
SortedByFinalScoreUnstable(list) == SortedDescUnstableFrom(<<>>, list)

\* sorted(list, key=lambda x: x.get("final_score", 0), reverse=True)
SortedByFinalScore(list) == SortedDescFrom(<<>>, list)

\* cv["rank"] = idx: the dict gains (or overwrites) the key "rank"
SetRank(cv, idx) ==
    [k \in (DOMAIN cv) \cup {"rank"} |-> IF k = "rank" THEN idx ELSE cv[k]]

\* mutant of AddRanks: enumerate(ranked) without start=1
AddRanksFromZero(ranked) == [i \in 1..Len(ranked) |-> SetRank(ranked[i], i - 1)]

\* for idx, cv in enumerate(ranked, start=1): cv["rank"] = idx
AddRanks(ranked) == [i \in 1..Len(ranked) |-> SetRank(ranked[i], i)]

\* A scored record as the ranker reads it; src is its position in the input.
ScoredRecord(i, level) ==
    [cv_filename |-> i, final_score |-> level * 2500]

\* scored_cv.get("scoring_results", {}) of a file without scoring results
NoScoringResults == EmptyDict

RankerInputs ==
    {s \in SeqsUpTo((0..MaxScoreLevel) \cup {-1}, MaxCVs) : TRUE}

\* The list the ranker reads: entry i is file i's scoring results.
InputList(levels) ==
    [i \in 1..Len(levels) |->
        IF levels[i] = -1 THEN NoScoringResults ELSE ScoredRecord(i, levels[i])]

AllScored(list) == \A i \in 1..Len(list) : "final_score" \in DOMAIN list[i]

InitRank ==
    /\ scores \in {InputList(l) : l \in RankerInputs}
    /\ ranked_cvs = <<>>
    /\ rank_op = "none"
    /\ sliced = None
    /\ CompareUnused /\ ConfigUnused /\ MetricsUnused /\ ScoreUnused /\ MappingUnused /\ IngestUnused

\* CVRanker.rank_from_summary: the summary holds only scoring results
rank_from_summary ==
    /\ rank_op = "none"
    /\ AllScored(scores)
    /\ ranked_cvs' = AddRanks(SortedByFinalScore(scores))
    /\ rank_op' = "summary"
    /\ UNCHANGED <<scores, sliced, cmpVars, cfgVars, metricVars, scoreVars, mappingVars, ingestVars>>

\* CVRanker.rank_from_scored_cvs: a scored file may lack "scoring_results"
rank_from_scored_cvs ==
    /\ rank_op = "none"
    /\ ranked_cvs' = AddRanks(SortedByFinalScore(scores))
    /\ rank_op' = "scored_cvs"
    /\ UNCHANGED <<scores, sliced, cmpVars, cfgVars, metricVars, scoreVars, mappingVars, ingestVars>>

\* AblationRunner.run_ablation, the ranking step
run_ablation_rank ==
    /\ rank_op = "none"
    /\ AllScored(scores)
    /\ Len(scores) > 0
    /\ ranked_cvs' = AddRanks(SortedByFinalScore(scores))
    /\ rank_op' = "ablation"
    /\ UNCHANGED <<scores, sliced, cmpVars, cfgVars, metricVars, scoreVars, mappingVars, ingestVars>>

NextRank == rank_from_summary \/ rank_from_scored_cvs \/ run_ablation_rank

SpecRank == InitRank /\ [][NextRank]_vars

\* CVRanker.get_top_n(n): self.ranked_cvs[:n]
get_top_n(n) ==
    /\ rank_op # "none"
    /\ sliced' = Some([op |-> "top", n |-> n, returned |-> Take(ranked_cvs, n)])
    /\ UNCHANGED <<scores, ranked_cvs, rank_op, cmpVars, cfgVars, metricVars, scoreVars,
                   mappingVars, ingestVars>>

\* CVRanker.get_bottom_n(n): self.ranked_cvs[-n:]; -0 is 0, and [0:] is the
\* whole list
get_bottom_n(n) ==
    /\ rank_op # "none"
    /\ sliced' = Some([op |-> "bottom", n |-> n,
                       returned |-> IF n = 0 THEN ranked_cvs
                                    ELSE SubSeq(ranked_cvs, Max(1, Len(ranked_cvs) - n + 1),
                                                Len(ranked_cvs))])
    /\ UNCHANGED <<scores, ranked_cvs, rank_op, cmpVars, cfgVars, metricVars, scoreVars,
                   mappingVars, ingestVars>>

\* The ranker with its slicing queries, for n from 0 to beyond the length of
\* the list
NextRankSlices ==
    \/ NextRank
    \/ \E n \in 0..(MaxCVs + 1) : get_top_n(n)
    \/ \E n \in 0..(MaxCVs + 1) : get_bottom_n(n)

SpecRankSlices == InitRank /\ [][NextRankSlices]_vars

\* C27: get_top_n(n) returns exactly the min(n, N) best-ranked entries and
\* get_bottom_n(n) exactly the min(n, N) worst-ranked entries of the N ranked
\* ones, for every n >= 0; both return nothing for n = 0.
C27_SlicesHoldMinOfNAndLength ==
    sliced # None =>
        LET N == Len(ranked_cvs)
            k == Min(The(sliced).n, N)
        IN  The(sliced).returned =
                IF The(sliced).op = "top" THEN [i \in 1..k |-> ranked_cvs[i]]
                ELSE [i \in 1..k |-> ranked_cvs[N - k + i]]

-----------------------------------------------------------------------------
(* The configuration and aggregator singletons:                            *)
(* config_loader.py:92-104, aggregator.py:199-207                          *)

InitConfig ==
    /\ config_instance = None
    /\ aggregator_instance = None
    /\ last_load = None
    /\ RankUnused /\ CompareUnused /\ MetricsUnused /\ ScoreUnused /\ MappingUnused /\ IngestUnused

Loaded(file) == [content |-> file.content, outcome |-> ConfigLoaderOutcome(file)]

\* get_config(config_path) while no instance exists: ConfigLoader(config_path)
\* is constructed; an exception leaves _config_instance None
get_config_first(file) ==
    /\ config_instance = None
    /\ last_load' = Some(Loaded(file))
    /\ config_instance' = IF ConfigLoaderOutcome(file) = "ok" THEN Some(file.content) ELSE None
    /\ UNCHANGED <<aggregator_instance, rankVars, cmpVars, metricVars, scoreVars, mappingVars, ingestVars>>

\* get_config(config_path) with an instance: the instance is returned as it is
get_config_again ==
    /\ config_instance # None
    /\ UNCHANGED vars

\* reload_config(config_path): the assignment happens only when the
\* constructor returns
reload_config(file) ==
    /\ last_load' = Some(Loaded(file))
    /\ config_instance' = IF ConfigLoaderOutcome(file) = "ok" THEN Some(file.content)
                          ELSE config_instance
    /\ UNCHANGED <<aggregator_instance, rankVars, cmpVars, metricVars, scoreVars, mappingVars, ingestVars>>

\* get_aggregator() while no aggregator exists: ScoreAggregator() takes
\* get_config(), which constructs the loader on the default file if needed
get_aggregator_first(file) ==
    /\ aggregator_instance = None
    /\ IF config_instance # None
       THEN /\ aggregator_instance' = Some([config |-> The(config_instance)])
            /\ UNCHANGED <<config_instance, last_load>>
       ELSE /\ last_load' = Some(Loaded(file))
            /\ config_instance' =
                  IF ConfigLoaderOutcome(file) = "ok" THEN Some(file.content) ELSE None
            /\ aggregator_instance' =
                  IF ConfigLoaderOutcome(file) = "ok" THEN Some([config |-> file.content])
                  ELSE None
    /\ UNCHANGED <<rankVars, cmpVars, metricVars, scoreVars, mappingVars, ingestVars>>

get_aggregator_again ==
    /\ aggregator_instance # None
    /\ UNCHANGED vars

NextConfig ==
    \/ \E file \in ConfigFiles : get_config_first(file)
    \/ get_config_again
    \/ \E file \in ConfigFiles : reload_config(file)
    \/ \E file \in ConfigFiles : get_aggregator_first(file)
    \/ get_aggregator_again

SpecConfig == InitConfig /\ [][NextConfig]_vars

\* C6: constructing a ConfigLoader on a configuration whose weights do not sum
\* to 1.0 within 0.01 fails with an error, and neither the configuration
\* singleton nor the aggregator ever holds such a configuration.
C6_BadWeightSumRejected ==
    /\ (last_load # None
        /\ ~WeightSumAccepted(SumValues(Get(The(last_load).content, "weights", EmptyDict))))
          => The(last_load).outcome \notin {"ok"}
    /\ config_instance # None => WeightSumAccepted(SumValues(The(config_instance).weights))
    /\ aggregator_instance # None =>
          WeightSumAccepted(SumValues(The(aggregator_instance).config.weights))

C6_Witness ==
    /\ last_load # None
    /\ "weights" \in DOMAIN The(last_load).content
    /\ SumValues(The(last_load).content.weights) = 102
    /\ The(last_load).outcome = "ValueError"
    /\ aggregator_instance # None
    /\ SumValues(The(aggregator_instance).config.weights) = 101

\* C18: loading a configuration that lacks the sub-weights of education,
\* experience, publications or coherence fails: the constructor raises and
\* no loader instance holds such a configuration.
C18_MissingSubweightsRejected ==
    LET LacksSubweights(content) ==
            \E c \in {"education", "experience", "publications", "coherence"} :
                c \notin DOMAIN Get(content, "subweights", EmptyDict)
    IN  /\ (last_load # None /\ LacksSubweights(The(last_load).content))
                => The(last_load).outcome # "ok"
        /\ config_instance # None => ~LacksSubweights(The(config_instance))

\* C26: in every state reached by get_config, reload_config and
\* get_aggregator calls, the configuration held by the aggregator singleton
\* (the one get_aggregator() scores with) is the one the configuration
\* singleton holds (the one get_config() returns).
C26_AggregatorScoresWithCurrentConfig ==
    aggregator_instance # None =>
        /\ config_instance # None
        /\ The(aggregator_instance).config = The(config_instance)

-----------------------------------------------------------------------------
(* Comparator: src/cv_assistant/ranking/comparator.py *)

\* mutant of WinnerOf: a tie is reported as a win of A
WinnerOfTieAsA(delta) == IF delta >= 0 THEN "A" ELSE "B"

\* "A" if delta > 0 else "B" if delta < 0 else "Tie"
WinnerOf(delta) == IF delta > 0 THEN "A" ELSE IF delta < 0 THEN "B" ELSE "Tie"

\* mutant of CriterionField: a missing criterion takes the value of the first
\* criterion the results hold
CriterionFieldOrFirst(criteria, criterion, field) ==
    IF criterion \in DOMAIN criteria \/ DOMAIN criteria = {}
    THEN Get(Get(criteria, criterion, EmptyDict), field, 0)
    ELSE Get(criteria[CHOOSE c \in DOMAIN criteria : TRUE], field, 0)

\* criteria.get(criterion, {}).get(field, 0)
CriterionField(criteria, criterion, field) ==
    Get(Get(criteria, criterion, EmptyDict), field, 0)

\* CVComparator._calculate_criterion_deltas: scores and contributions in 1e-4
calculate_criterion_deltas(criteria_a, criteria_b) ==
    [criterion \in Criteria |->
        LET score_a == CriterionField(criteria_a, criterion, "score")
            score_b == CriterionField(criteria_b, criterion, "score")
            contribution_a == CriterionField(criteria_a, criterion, "weighted_contribution")
            contribution_b == CriterionField(criteria_b, criterion, "weighted_contribution")
        IN  [score_delta |-> score_a - score_b,
             contribution_delta |-> contribution_a - contribution_b,
             a_score |-> score_a,
             b_score |-> score_b,
             a_contribution |-> contribution_a,
             b_contribution |-> contribution_b]]

\* mutant of InsertDifference: x goes before the elements with an equal key
RECURSIVE InsertDifferenceBeforeEqual(_, _)
InsertDifferenceBeforeEqual(sorted, x) ==
    IF sorted = <<>> THEN <<x>>
    ELSE IF Head(sorted).abs_contribution_delta > x.abs_contribution_delta
         THEN <<Head(sorted)>> \o InsertDifferenceBeforeEqual(Tail(sorted), x)
         ELSE <<x>> \o sorted

\* Insert x into a list sorted by descending abs_contribution_delta, after
\* the elements with an equal or larger key (list.sort is stable, also with
\* reverse=True).
RECURSIVE InsertDifference(_, _)
InsertDifference(sorted, x) ==
    IF sorted = <<>> THEN <<x>>
    ELSE IF Head(sorted).abs_contribution_delta >= x.abs_contribution_delta
         THEN <<Head(sorted)>> \o InsertDifference(Tail(sorted), x)
         ELSE <<x>> \o sorted

RECURSIVE SortDifferencesFrom(_, _)
SortDifferencesFrom(acc, rest) ==
    IF rest = <<>> THEN acc
    ELSE SortDifferencesFrom(InsertDifference(acc, Head(rest)), Tail(rest))

\* CVComparator._identify_key_differences: criterion_deltas is iterated in
\* insertion order, which is CriteriaOrder
identify_key_differences(criterion_deltas) ==
    LET differences ==
            [i \in 1..Len(CriteriaOrder) |->
                [criterion |-> CriteriaOrder[i],
                 contribution_delta |-> criterion_deltas[CriteriaOrder[i]].contribution_delta,
                 score_delta |-> criterion_deltas[CriteriaOrder[i]].score_delta,
                 abs_contribution_delta |->
                    Abs(criterion_deltas[CriteriaOrder[i]].contribution_delta)]]
        sorted == SortDifferencesFrom(<<>>, differences)
    IN  SubSeq(sorted, 1, Min(3, Len(sorted)))

\* criterion.replace("_", " ").title()
TitleOf ==
    [education |-> "Education", experience |-> "Experience",
     publications |-> "Publications", coherence |-> "Coherence",
     awards_other |-> "Awards Other"]

\* CVComparator._create_delta_table
create_delta_table(criteria_a, criteria_b) ==
    [i \in 1..Len(CriteriaOrder) |->
        LET criterion == CriteriaOrder[i]
            score_a == CriterionField(criteria_a, criterion, "score")
            score_b == CriterionField(criteria_b, criterion, "score")
            contribution_a == CriterionField(criteria_a, criterion, "weighted_contribution")
            contribution_b == CriterionField(criteria_b, criterion, "weighted_contribution")
        IN  [criterion |-> TitleOf[criterion],
             weight |-> CriterionField(criteria_a, criterion, "weight"),
             cv_a_score |-> score_a,
             cv_b_score |-> score_b,
             score_delta |-> score_a - score_b,
             cv_a_contribution |-> contribution_a,
             cv_b_contribution |-> contribution_b,
             contribution_delta |-> contribution_a - contribution_b,
             winner |-> WinnerOf(contribution_a - contribution_b)]]

\* CVComparator.compare
compare(a, b) ==
    LET score_a == Get(a, "final_score", 0)
        score_b == Get(b, "final_score", 0)
        overall_delta == score_a - score_b
        criteria_a == Get(a, "criterion_scores", EmptyDict)
        criteria_b == Get(b, "criterion_scores", EmptyDict)
        criterion_deltas == calculate_criterion_deltas(criteria_a, criteria_b)
    IN  [cv_a |-> [filename |-> Get(a, "cv_filename", "Unknown"),
                   final_score |-> score_a,
                   final_score_percentage |-> Get(a, "final_score_percentage", score_a)],
         cv_b |-> [filename |-> Get(b, "cv_filename", "Unknown"),
                   final_score |-> score_b,
                   final_score_percentage |-> Get(b, "final_score_percentage", score_b)],
         overall_delta |-> [absolute |-> overall_delta,
                            percentage |-> overall_delta,
                            winner |-> WinnerOf(overall_delta)],
         criterion_deltas |-> criterion_deltas,
         key_differences |-> identify_key_differences(criterion_deltas),
         delta_table |-> create_delta_table(criteria_a, criteria_b)]

\* The criterion scores of a comparator input: level l stands for l * 0.5
LevelScores(levels) == [c \in Criteria |-> Min(Unit, levels[c] * (Unit \div 2))]

\* Scoring results whose criterion_scores are restricted to the criteria kept
\* and extended by a criterion the comparator does not know
ResultsOver(results, kept, extra) ==
    [results EXCEPT !.criterion_scores =
        [c \in (kept \cup extra) |->
            IF c \in kept THEN results.criterion_scores[c]
            ELSE [score |-> Unit \div 10, weight |-> 10, weighted_contribution |-> 1000,
                  details |-> EmptyDict]]]

\* Results read from files that were not written by this scoring run: one
\* lacks the coherence criterion, one lacks education and awards_other and
\* carries a "languages" criterion
PartialResults(w, name) ==
    LET full == WithFilename(CompileResults(ConfigWith(w), LevelScores([c \in Criteria |-> 1]),
                                            NoDetails, TiesDown), name)
    IN  {ResultsOver(full, Criteria \ {"coherence"}, {}),
         ResultsOver(full, Criteria \ {"education", "awards_other"}, {"languages"})}

\* The scoring results the comparator is run on: what the aggregator compiles
\* from criterion scores on the levels under the weights w, and the empty
\* dictionary of a file without scoring results.
ComparatorInputs(w, name, top) ==
    {WithFilename(CompileResults(ConfigWith(w), LevelScores(l), NoDetails, TiesDown), name) :
        l \in [Criteria -> 0..top]}
    \cup {NoScoringResults}
    \cup PartialResults(w, name)

\* The two results of one comparison come from one scoring run, so from one
\* configuration.
InitCompare ==
    /\ \E w \in AblationWeights :
          /\ cv_a \in ComparatorInputs(w, "cv_a", MaxCmpLevel)
          /\ cv_b \in ComparatorInputs(w, "cv_b", 1)
    /\ comparison = None
    /\ explanation = None
    /\ RankUnused /\ ConfigUnused /\ MetricsUnused /\ ScoreUnused /\ MappingUnused /\ IngestUnused

Compare ==
    /\ comparison = None
    /\ comparison' = Some(compare(cv_a, cv_b))
    /\ UNCHANGED <<cv_a, cv_b, explanation, rankVars, cfgVars, metricVars, scoreVars, mappingVars, ingestVars>>

NextCompare == Compare

SpecCompare == InitCompare /\ [][NextCompare]_vars

\* C5: compare(a, b) reports winner "A" exactly when a.final_score >
\* b.final_score, "B" exactly when it is smaller, "Tie" exactly when equal.
C5_WinnerAgreesWithScores ==
    (comparison # None /\ "final_score" \in DOMAIN cv_a /\ "final_score" \in DOMAIN cv_b) =>
        LET winner == The(comparison).overall_delta.winner IN
        /\ (winner = "A") = (cv_a.final_score > cv_b.final_score)
        /\ (winner = "B") = (cv_a.final_score < cv_b.final_score)
        /\ (winner = "Tie") = (cv_a.final_score = cv_b.final_score)

C5_Witness ==
    /\ comparison # None
    /\ "final_score" \in DOMAIN cv_a /\ "final_score" \in DOMAIN cv_b
    /\ cv_a.final_score = cv_b.final_score
    /\ cv_a.criterion_scores # cv_b.criterion_scores
    /\ The(comparison).overall_delta.winner = "Tie"

\* The weighted contribution of a criterion in the results handed to compare,
\* 0 when the results do not hold the criterion
ContributionIn(results, criterion) ==
    IF "criterion_scores" \in DOMAIN results
       /\ criterion \in DOMAIN results.criterion_scores
    THEN results.criterion_scores[criterion].weighted_contribution
    ELSE 0

\* C16: whatever criteria the two results hold, criterion_deltas has exactly
\* the keys education, experience, publications, coherence, awards_other,
\* delta_table has one row for each of them in that order, and every
\* contribution_delta is A's weighted contribution minus B's, a criterion the
\* results lack counting 0.
C16_FiveCriteriaDeltas ==
    comparison # None =>
        LET result == The(comparison)
            order == <<"education", "experience", "publications", "coherence", "awards_other">>
            titles == <<"Education", "Experience", "Publications", "Coherence", "Awards Other">>
        IN  /\ DOMAIN result.criterion_deltas = Range(order)
            /\ Len(result.delta_table) = 5
            /\ \A i \in 1..5 :
                  LET delta == ContributionIn(cv_a, order[i]) - ContributionIn(cv_b, order[i])
                  IN  /\ result.delta_table[i].criterion = titles[i]
                      /\ result.delta_table[i].contribution_delta = delta
                      /\ result.criterion_deltas[order[i]].contribution_delta = delta

\* A lacks the coherence criterion, B carries an unknown criterion and lacks
\* two, and the comparison counted the missing ones as 0
C16_Witness ==
    /\ comparison # None
    /\ "criterion_scores" \in DOMAIN cv_a /\ "criterion_scores" \in DOMAIN cv_b
    /\ "coherence" \notin DOMAIN cv_a.criterion_scores
    /\ "languages" \in DOMAIN cv_b.criterion_scores
    /\ The(comparison).criterion_deltas["coherence"].contribution_delta < 0
    /\ The(comparison).criterion_deltas["education"].contribution_delta > 0

\* Criterion c comes before criterion d in the key differences of a result:
\* its |contribution_delta| is larger, or equal with c earlier in the order
\* education, experience, publications, coherence, awards_other
ComesBefore(result, c, d) ==
    LET order == <<"education", "experience", "publications", "coherence", "awards_other">>
        Magnitude(x) == Abs(result.criterion_deltas[x].contribution_delta)
        Position(x) == CHOOSE i \in 1..5 : order[i] = x
    IN  \/ Magnitude(c) > Magnitude(d)
        \/ Magnitude(c) = Magnitude(d) /\ Position(c) < Position(d)

\* C17: key_differences holds three criteria, each entry comes before the
\* next and the third before every criterion left out, where "before" means
\* a larger |contribution_delta| or, on a tie, an earlier place in the
\* criteria order; each entry carries its criterion's contribution_delta.
C17_KeyDifferencesTopThree ==
    comparison # None =>
        LET result == The(comparison)
            key == result.key_differences
        IN  /\ Len(key) = 3
            /\ \A i \in 1..2 : ComesBefore(result, key[i].criterion, key[i + 1].criterion)
            /\ \A c \in Criteria \ {key[i].criterion : i \in 1..3} :
                  ComesBefore(result, key[3].criterion, c)
            /\ \A i \in 1..3 :
                  /\ key[i].contribution_delta
                        = result.criterion_deltas[key[i].criterion].contribution_delta
                  /\ key[i].abs_contribution_delta = Abs(key[i].contribution_delta)

\* A comparison where the third key difference ties with a criterion that was
\* left out, and the first ties with the second, all with a delta other than 0
C17_Witness ==
    /\ comparison # None
    /\ LET result == The(comparison)
           key == result.key_differences
       IN  /\ key[1].abs_contribution_delta = key[2].abs_contribution_delta
           /\ key[3].abs_contribution_delta > 0
           /\ key[3].contribution_delta < 0
           /\ \E c \in Criteria \ {key[i].criterion : i \in 1..3} :
                 Abs(result.criterion_deltas[c].contribution_delta)
                    = key[3].abs_contribution_delta

-----------------------------------------------------------------------------
(* Explanation generator:                                                  *)
(* src/cv_assistant/explanations/explanation_generator.py                  *)

\* ", ".join(parts), from the i-th part on
RECURSIVE JoinFrom(_, _)
JoinFrom(parts, i) ==
    IF i > Len(parts) THEN ""
    ELSE IF i = Len(parts) THEN parts[i]
    ELSE parts[i] \o ", " \o JoinFrom(parts, i + 1)

\* s.replace(" ", "_"), from the i-th character on
RECURSIVE UnderscoredFrom(_, _)
UnderscoredFrom(s, i) ==
    IF i > Len(s) THEN ""
    ELSE (IF SubSeq(s, i, i) = " " THEN "_" ELSE SubSeq(s, i, i)) \o UnderscoredFrom(s, i + 1)

\* f"{x:.2f}" of x counted in hundredths
FormatHundredths(x) ==
    (IF x < 0 THEN "-" ELSE "") \o ToString(Abs(x) \div 100) \o "."
        \o (IF Abs(x) % 100 < 10 THEN "0" ELSE "") \o ToString(Abs(x) % 100)

\* f"{delta:.2%}" of a score delta in 1e-4
FormatPercent(delta) == FormatHundredths(delta) \o "%"

\* f"{months / 12:.1f}": months / 12 lies on a tie only at an odd number of
\* quarters, which is exact in binary, so the tie goes to the even digit
FormatYears(months) ==
    LET tenths == PyRound(Abs(months) * 10, 12, ((Abs(months) * 10) \div 12) % 2 = 1)
    IN  (IF months < 0 THEN "-" ELSE "") \o ToString(tenths \div 10) \o "."
            \o ToString(tenths % 10)

\* The sub-scores a (in 1e-3, up to 1.0) for which the double a - (a - 0.1)
\* compares above the double 0.1
TenthExcess ==
    {171} \cup (202..203) \cup (272..281) \cup (335..343) \cup (382..406) \cup (444..468)
    \cup (507..562) \cup (663..687) \cup (788..812) \cup (913..937)

\* abs(a - b) > 0.1 for two sub-scores in 1e-3
ExceedsTenthEitherWay(a, b) ==
    \/ Abs(a - b) > 100
    \/ a - b = 100 /\ a \in TenthExcess
    \/ b - a = 100 /\ b \in TenthExcess

\* a - b > 0.1 for two sub-scores in 1e-3
ExceedsTenth(a, b) == a - b > 100 \/ (a - b = 100 /\ a \in TenthExcess)

\* details.get("details", {}).get(key, default)
DetailOf(details, key, default) == Get(Get(details, "details", EmptyDict), key, default)

\* sub_a.get(name, 0) - sub_b.get(name, 0) > 0.1
SubScoreAhead(details_a, details_b, name) ==
    ExceedsTenth(Get(DetailOf(details_a, "sub_scores", EmptyDict), name, 0),
                 Get(DetailOf(details_b, "sub_scores", EmptyDict), name, 0))

\* reasons.append(text) under a condition
When(condition, text) == IF condition THEN <<text>> ELSE <<>>

\* ExplanationGenerator._explain_education
explain_education(details_a, details_b, delta) ==
    LET reasons ==
            When(SubScoreAhead(details_a, details_b, "university_tier"), "higher-tier university")
            \o When(SubScoreAhead(details_a, details_b, "gpa"), "better GPA")
            \o When(SubScoreAhead(details_a, details_b, "degree_level"), "higher degree level")
    IN  IF reasons # <<>> THEN "Stronger education due to " \o JoinFrom(reasons, 1) \o "."
        ELSE "Better overall education profile (score advantage: " \o FormatPercent(delta) \o ")."

\* ExplanationGenerator._explain_experience
explain_experience(details_a, details_b, delta) ==
    LET months_a == DetailOf(details_a, "total_months", 0)
        months_b == DetailOf(details_b, "total_months", 0)
        reasons ==
            When(SubScoreAhead(details_a, details_b, "duration"),
                 FormatYears(months_a - months_b) \o " more years of experience")
            \o When(SubScoreAhead(details_a, details_b, "domain_match"), "better domain alignment")
            \o When(SubScoreAhead(details_a, details_b, "seniority"), "higher seniority level")
    IN  IF reasons # <<>> THEN "Stronger experience: " \o JoinFrom(reasons, 1) \o "."
        ELSE "Better overall experience profile (score advantage: " \o FormatPercent(delta) \o ")."

\* mutant of explain_publications: the count of publications is not compared
explain_publications_by_sub_scores(details_a, details_b, delta) ==
    LET reasons ==
            When(SubScoreAhead(details_a, details_b, "if"), "higher impact factor journals")
            \o When(SubScoreAhead(details_a, details_b, "author_position"),
                    "better author positions")
            \o When(SubScoreAhead(details_a, details_b, "venue_quality"), "higher-quality venues")
    IN  IF reasons # <<>> THEN "Stronger research profile: " \o JoinFrom(reasons, 1) \o "."
        ELSE "Better publication record (score advantage: " \o FormatPercent(delta) \o ")."

\* ExplanationGenerator._explain_publications
explain_publications(details_a, details_b, delta) ==
    LET count_a == DetailOf(details_a, "total_publications", 0)
        count_b == DetailOf(details_b, "total_publications", 0)
        reasons ==
            When(count_a > count_b, ToString(count_a - count_b) \o " more publications")
            \o When(SubScoreAhead(details_a, details_b, "if"), "higher impact factor journals")
            \o When(SubScoreAhead(details_a, details_b, "author_position"),
                    "better author positions")
            \o When(SubScoreAhead(details_a, details_b, "venue_quality"), "higher-quality venues")
    IN  IF reasons # <<>> THEN "Stronger research profile: " \o JoinFrom(reasons, 1) \o "."
        ELSE "Better publication record (score advantage: " \o FormatPercent(delta) \o ")."

\* ExplanationGenerator._explain_coherence
explain_coherence(details_a, details_b, delta) ==
    LET reasons ==
            When(SubScoreAhead(details_a, details_b, "domain_consistency"),
                 "more consistent domain focus")
            \o When(SubScoreAhead(details_a, details_b, "progression"),
                    "better career progression")
    IN  IF reasons # <<>> THEN "Better career coherence: " \o JoinFrom(reasons, 1) \o "."
        ELSE "More coherent career trajectory (score advantage: " \o FormatPercent(delta) \o ")."

\* ExplanationGenerator._explain_awards
explain_awards(details_a, details_b, delta) ==
    LET count_a == DetailOf(details_a, "total_awards", 0)
        count_b == DetailOf(details_b, "total_awards", 0)
    IN  IF count_a > count_b THEN ToString(count_a - count_b) \o " more awards and achievements."
        ELSE IF count_a = count_b /\ count_a > 0 THEN "Higher quality awards."
        ELSE "Better awards profile (score advantage: " \o FormatPercent(delta) \o ")."

\* ExplanationGenerator._generate_reason_text
generate_reason_text(criterion, score_delta, contribution_delta, details_a, details_b) ==
    IF criterion = "education" THEN explain_education(details_a, details_b, score_delta)
    ELSE IF criterion = "experience" THEN explain_experience(details_a, details_b, score_delta)
    ELSE IF criterion = "publications"
    THEN explain_publications(details_a, details_b, score_delta)
    ELSE IF criterion = "coherence" THEN explain_coherence(details_a, details_b, score_delta)
    ELSE IF criterion = "awards_other" THEN explain_awards(details_a, details_b, score_delta)
    ELSE criterion \o " is stronger by " \o FormatPercent(Abs(score_delta))

\* "High" if abs(contribution_delta) > 0.1 else "Medium" if .. > 0.05 else
\* "Low", for a contribution delta in 1e-4
ImpactOf(contribution_delta) ==
    IF Abs(contribution_delta) > 1000 THEN "High"
    ELSE IF Abs(contribution_delta) > 500 THEN "Medium"
    ELSE "Low"

\* ExplanationGenerator._generate_reasons
generate_reasons(key_differences, a, b) ==
    [idx \in 1..Min(3, Len(key_differences)) |->
        LET diff == key_differences[idx]
            criterion == diff.criterion
            criteria_a == Get(Get(a, "criterion_scores", EmptyDict), criterion, EmptyDict)
            criteria_b == Get(Get(b, "criterion_scores", EmptyDict), criterion, EmptyDict)
        IN  [rank |-> idx,
             criterion |-> TitleOf[criterion],
             reason |-> generate_reason_text(criterion, diff.score_delta,
                                             diff.contribution_delta, criteria_a, criteria_b),
             score_delta |-> diff.score_delta,
             contribution_delta |-> diff.contribution_delta,
             impact |-> ImpactOf(diff.contribution_delta)]]

\* evidence[:2] of the criterion of a scoring result
EvidenceOf(cv, criterion) ==
    LET evidence == DetailOf(Get(Get(cv, "criterion_scores", EmptyDict), criterion, EmptyDict),
                             "evidence", <<>>)
    IN  SubSeq(evidence, 1, Min(2, Len(evidence)))

\* ExplanationGenerator._add_evidence_to_reasons: the reason gains the key
\* "evidence"
add_evidence_to_reasons(reasons, a, b) ==
    [i \in 1..Len(reasons) |->
        LET criterion == UnderscoredFrom(lower(reasons[i].criterion), 1)
        IN  [k \in (DOMAIN reasons[i]) \cup {"evidence"} |->
                IF k = "evidence"
                THEN [cv_a |-> EvidenceOf(a, criterion), cv_b |-> EvidenceOf(b, criterion)]
                ELSE reasons[i][k]]]

\* ExplanationGenerator._generate_summary
generate_summary(a, b, compared) ==
    LET filename_a == Get(a, "cv_filename", "Candidate A")
        filename_b == Get(b, "cv_filename", "Candidate B")
        score_a == Get(a, "final_score_percentage", 0)
        score_b == Get(b, "final_score_percentage", 0)
        delta == compared.overall_delta.percentage
        key_diff == compared.key_differences[1]
    IN  filename_a \o " (Score: " \o FormatHundredths(score_a) \o "%) ranks higher than "
        \o filename_b \o " (Score: " \o FormatHundredths(score_b) \o "%) by "
        \o FormatHundredths(Abs(delta)) \o " percentage points. "
        \o "The primary advantage is in " \o TitleOf[key_diff.criterion] \o "."

\* ExplanationGenerator.explain_why_a_better_than_b with include_evidence
explain_why_a_better_than_b(a, b) ==
    LET compared == compare(a, b)
        reasons == add_evidence_to_reasons(generate_reasons(compared.key_differences, a, b),
                                           a, b)
    IN  [summary |-> generate_summary(a, b, compared),
         top_reasons |-> reasons,
         delta_table |-> compared.delta_table,
         overall_delta |-> compared.overall_delta,
         cv_a_filename |-> Get(a, "cv_filename", "Unknown"),
         cv_b_filename |-> Get(b, "cv_filename", "Unknown")]

(* Scoring two records and explaining the first against the second *)

ThreePapers ==
    <<[title |-> Some("Parsing"), venue |-> Some("Nature"), type |-> Some("Journal"),
       author_position |-> Some(1), domain |-> Some("NLP")],
      [title |-> Some("Tagging"), venue |-> Some("ACL"), type |-> Some("Conference"),
       author_position |-> Some(2), domain |-> Some("NLP")],
      [title |-> Some("Survey"), venue |-> Some("COLING"), type |-> Some("Conference"),
       author_position |-> Some(3), domain |-> Some("Speech")]>>

\* Three preprints outside the domain of the career
ScatteredPapers ==
    <<[title |-> Some("Tracking"), venue |-> Some("arXiv"), type |-> Some("Preprint"),
       domain |-> Some("Vision")],
      [title |-> Some("Grasping"), venue |-> Some("arXiv"), type |-> Some("Preprint"),
       domain |-> Some("Robotics")],
      [title |-> Some("Indexing"), venue |-> Some("arXiv"), type |-> Some("Preprint"),
       domain |-> Some("Databases")]>>

\* cv_data with the publications list replaced
WithPublications(cv_data, publications) ==
    [k \in (DOMAIN cv_data) \cup {"publications"} |->
        IF k = "publications" THEN publications ELSE cv_data[k]]

ScholarRecord ==
    [education |-> <<[degree |-> Some("MSc"), field |-> Some("NLP"),
                      university |-> Some("University of Lahore"), gpa |-> Some(350),
                      scale |-> Some(400)]>>,
     experience |-> <<[title |-> Some("Research Assistant"), org |-> Some("LUMS"),
                       duration_months |-> Some(12), domain |-> Some("NLP")]>>,
     publications |-> <<>>]

ExplainedRecords ==
    {EmptyDict, GraduateRecord, WithPublications(GraduateRecord, ThreePapers),
     ScholarRecord, WithPublications(ScholarRecord, ThreePapers),
     WithPublications(ScholarRecord, ScatteredPapers),
     ResearcherRecord, PractitionerRecord}

\* The accepted configuration files of the runs that are explained
ExplainedConfigFiles ==
    {[exists |-> TRUE, suffix |-> ".yaml", content |-> ConfigWith(w)] : w \in AblationWeights}

\* One of the two records of the pair is scored
ScoreOfPair(cv_data) ==
    /\ Len(scored) < 2
    /\ ScoreRecord(cv_data)

\* explain_why_a_better_than_b on the two scoring results, each under the
\* name of its file
ExplainPair ==
    /\ Len(scored) = 2
    /\ \A i \in 1..2 : scored[i].raised = "ok"
    /\ explanation = None
    /\ cv_a' = WithFilename(The(scored[1].results), "cv_a")
    /\ cv_b' = WithFilename(The(scored[2].results), "cv_b")
    /\ comparison' = Some(compare(cv_a', cv_b'))
    /\ explanation' = Some(explain_why_a_better_than_b(cv_a', cv_b'))
    /\ UNCHANGED <<scoreVars, rankVars, cfgVars, metricVars, mappingVars, ingestVars>>

InitExplain ==
    /\ round_up \in TieDirections
    /\ aggregator = None
    /\ scored = <<>>
    /\ batch = <<>>
    /\ RankUnused /\ CompareUnused /\ ConfigUnused /\ MetricsUnused /\ MappingUnused /\ IngestUnused

NextExplain ==
    \/ \E file \in ExplainedConfigFiles : NewScoreAggregator(file)
    \/ \E cv_data \in ExplainedRecords : ScoreOfPair(cv_data)
    \/ ExplainPair

SpecExplain == InitExplain /\ [][NextExplain]_vars

\* The first record scored has three publications, the second none, and they
\* agree on everything else
DifferOnlyInPublications ==
    /\ Len(scored) = 2
    /\ Len(Items(scored[1].cv_data, "publications")) = 3
    /\ Items(scored[2].cv_data, "publications") = <<>>
    /\ \A section \in {"education", "experience", "awards"} :
          Items(scored[1].cv_data, section) = Items(scored[2].cv_data, section)

\* The reasons of the explanation given for a criterion
ReasonsFor(criterion) ==
    {The(explanation).top_reasons[i].reason :
        i \in {j \in 1..Len(The(explanation).top_reasons) :
                The(comparison).key_differences[j].criterion = criterion}}

\* C12 as stated: for two records that differ only in their publications
\* (three against none), the first key difference of compare is
\* "publications" and its reason contains "3 more publications".
C12_PublicationsLeadKeyDifferences ==
    (explanation # None /\ DifferOnlyInPublications) =>
        /\ The(comparison).key_differences[1].criterion = "publications"
        /\ Contains(The(explanation).top_reasons[1].reason, "3 more publications")

\* C12 amended: for two such records the education, experience and awards
\* deltas are 0; the first key difference is "publications" exactly when the
\* publications |contribution_delta| is positive and not below the coherence
\* |contribution_delta| (otherwise it is "coherence", or "education" when
\* both are 0); and whenever "publications" is among the key differences its
\* reason contains "3 more publications".
C12_PublicationsLeadUnlessCoherenceOutweighs ==
    (explanation # None /\ DifferOnlyInPublications) =>
        LET deltas == The(comparison).criterion_deltas
            publications == Abs(deltas["publications"].contribution_delta)
            coherence == Abs(deltas["coherence"].contribution_delta)
        IN  /\ \A c \in {"education", "experience", "awards_other"} :
                  deltas[c].contribution_delta = 0 /\ deltas[c].score_delta = 0
            /\ The(comparison).key_differences[1].criterion =
                  IF publications > 0 /\ publications >= coherence THEN "publications"
                  ELSE IF coherence > 0 THEN "coherence"
                  ELSE "education"
            /\ \A reason \in ReasonsFor("publications") :
                  Contains(reason, "3 more publications")

\* The publications lead the key differences although the coherence differs too
C12_Witness ==
    /\ explanation # None
    /\ DifferOnlyInPublications
    /\ The(comparison).criterion_deltas["coherence"].contribution_delta # 0
    /\ The(comparison).key_differences[1].criterion = "publications"
    /\ Contains(The(explanation).top_reasons[1].reason, "3 more publications")

\* The sub-scores of the four criteria that have them, each with the phrase
\* that names it as a driver
DriverPhrases ==
    [education |-> [university_tier |-> "higher-tier university", gpa |-> "better GPA",
                    degree_level |-> "higher degree level"],
     experience |-> [duration |-> "more years of experience",
                     domain_match |-> "better domain alignment",
                     seniority |-> "higher seniority level"],
     publications |-> [if |-> "higher impact factor journals",
                       author_position |-> "better author positions",
                       venue_quality |-> "higher-quality venues"],
     coherence |-> [domain_consistency |-> "more consistent domain focus",
                    progression |-> "better career progression"]]

\* The sub-score of a criterion in scoring results
SubScoreIn(results, criterion, name) ==
    results.criterion_scores[criterion].details.sub_scores[name]

\* C20: in the reason of every key difference on education, experience,
\* publications or coherence, a sub-score whose values in the two records
\* differ by more than 0.1, in either direction, is named as a driver, and the
\* reason is the generic "(score advantage: X%)" text only when no sub-score
\* differs by more than 0.1 in magnitude.
C20_DriversNamedEitherWay ==
    explanation # None =>
        \A j \in 1..Len(The(explanation).top_reasons) :
            LET criterion == The(comparison).key_differences[j].criterion
                reason == The(explanation).top_reasons[j].reason
                Differs(name) ==
                    ExceedsTenthEitherWay(SubScoreIn(cv_a, criterion, name),
                                          SubScoreIn(cv_b, criterion, name))
            IN  criterion \in DOMAIN DriverPhrases =>
                    /\ \A name \in DOMAIN DriverPhrases[criterion] :
                          Differs(name) => Contains(reason, DriverPhrases[criterion][name])
                    /\ Contains(reason, "(score advantage: ") =>
                          \A name \in DOMAIN DriverPhrases[criterion] : ~Differs(name)

\* C29: the summary of an explanation says that cv_a ranks higher than cv_b
\* only when the winner of its overall_delta is 'A'.
C29_SummaryAgreesWithWinner ==
    explanation # None =>
        (Contains(The(explanation).summary, " ranks higher than ")
            => The(explanation).overall_delta.winner = "A")

-----------------------------------------------------------------------------
(* Evaluation metrics: src/cv_assistant/evaluation/metrics.py *)

CvIds == {"cv1", "cv2", "cv3"}

\* A Python float that must be compared exactly: <<numerator, denominator>>
Rat(n, d) == <<n, d>>

RatEq(a, b) == a[1] * b[2] = b[1] * a[2]

RatAdd(a, b) == <<a[1] * b[2] + b[1] * a[2], a[2] * b[2]>>

\* {cv_id: rank for rank, cv_id in enumerate(ranking, start)}: a later
\* occurrence of an id overwrites an earlier one
EnumerateMap(ranking, start) ==
    [id \in Range(ranking) |->
        start - 1 + CHOOSE i \in 1..Len(ranking) :
            ranking[i] = id /\ \A j \in (i + 1)..Len(ranking) : ranking[j] # id]

\* PairwiseMetrics.pairwise_accuracy, the loop of lines 239-244: the number of
\* pairs counted correct among the first n
RECURSIVE CorrectPairs(_, _, _)
CorrectPairs(rank_map, pairs, n) ==
    IF n = 0 THEN 0
    ELSE LET better_cv == pairs[n][1]
             worse_cv == pairs[n][2]
         IN  CorrectPairs(rank_map, pairs, n - 1)
             + (IF better_cv \in DOMAIN rank_map /\ worse_cv \in DOMAIN rank_map
                   /\ rank_map[better_cv] < rank_map[worse_cv]
                THEN 1 ELSE 0)

\* PairwiseMetrics.pairwise_accuracy
pairwise_accuracy(predicted, ground_truth_pairs) ==
    IF ground_truth_pairs = <<>> THEN Rat(0, 1)
    ELSE LET rank_map == EnumerateMap(predicted, 0)
             correct == CorrectPairs(rank_map, ground_truth_pairs, Len(ground_truth_pairs))
             total == Len(ground_truth_pairs)
         IN  IF total > 0 THEN Rat(correct, total) ELSE Rat(0, 1)

\* mutant of AveragePrecisionDenominator: the number of relevant items found
AveragePrecisionOverFound(num_relevant, num_relevant_found) == num_relevant_found

\* the denominator of metrics.py:133
AveragePrecisionDenominator(num_relevant, num_relevant_found) == num_relevant

\* RankingMetrics.mean_average_precision, the loop of lines 124-128 over the
\* positions i..Len(predicted): [found, precision_sum] after it
RECURSIVE PrecisionLoop(_, _, _, _, _)
PrecisionLoop(predicted, relevant_set, i, found, precision_sum) ==
    IF i > Len(predicted) THEN [found |-> found, precision_sum |-> precision_sum]
    ELSE IF predicted[i] \in relevant_set
         THEN PrecisionLoop(predicted, relevant_set, i + 1, found + 1,
                            RatAdd(precision_sum, Rat(found + 1, i)))
         ELSE PrecisionLoop(predicted, relevant_set, i + 1, found, precision_sum)

\* RankingMetrics.mean_average_precision
mean_average_precision(predicted, relevant_items) ==
    IF relevant_items = <<>> THEN Rat(0, 1)
    ELSE LET relevant_set == Range(relevant_items)
             num_relevant == Cardinality(relevant_set)
             loop == PrecisionLoop(predicted, relevant_set, 1, 0, Rat(0, 1))
         IN  IF loop.found = 0 THEN Rat(0, 1)
             ELSE Rat(loop.precision_sum[1],
                      loop.precision_sum[2]
                        * AveragePrecisionDenominator(num_relevant, loop.found))

\* 1 / math.log2(i + 1) in millionths, for the positions the model reaches
Discount(i) ==
    <<1000000, 630930, 500000, 430677, 386853, 356207, 333333, 315465>>[i]

\* The values of a relevance table in descending order
RECURSIVE SortedValuesDesc(_, _)
SortedValuesDesc(table, ids) ==
    IF ids = {} THEN <<>>
    ELSE LET top == CHOOSE x \in ids : \A y \in ids : table[x] >= table[y]
         IN  <<table[top]>> \o SortedValuesDesc(table, ids \ {top})

\* sum of relevance / log2(i + 1) over the first n entries of a list of
\* relevance values, in millionths
RECURSIVE DiscountedSum(_, _)
DiscountedSum(relevances, n) ==
    IF n = 0 THEN 0
    ELSE DiscountedSum(relevances, n - 1) + relevances[n] * Discount(n)

\* mutant of IdealRelevances: the sorted relevance values are not cut at k
IdealRelevancesUncut(relevance_scores, k) ==
    SortedValuesDesc(relevance_scores, DOMAIN relevance_scores)

\* sorted(relevance_scores.values(), reverse=True)[:k]
IdealRelevances(relevance_scores, k) ==
    Take(SortedValuesDesc(relevance_scores, DOMAIN relevance_scores), k)

\* RankingMetrics.ndcg_at_k: [dcg, idcg, value]
ndcg_at_k(predicted, relevance_scores, k) ==
    LET top_k_pred == Take(predicted, k)
        gains == [i \in 1..Len(top_k_pred) |-> Get(relevance_scores, top_k_pred[i], 0)]
        dcg == DiscountedSum(gains, Len(gains))
        sorted_relevances == IdealRelevances(relevance_scores, k)
        idcg == DiscountedSum(sorted_relevances, Len(sorted_relevances))
    IN  [dcg |-> dcg, idcg |-> idcg,
         value |-> IF idcg = 0 THEN Rat(0, 1) ELSE Rat(dcg, idcg)]

\* RankingMetrics._convert_to_ranks
convert_to_ranks(predicted, ground_truth_ranking) ==
    LET ground_truth_map == EnumerateMap(ground_truth_ranking, 1)
        kept == SelectSeq(predicted, LAMBDA cv_id : cv_id \in DOMAIN ground_truth_map)
    IN  [i \in 1..Len(kept) |-> ground_truth_map[kept[i]]]

Sign(x) == IF x > 0 THEN 1 ELSE IF x < 0 THEN -1 ELSE 0

PairsOf(n) == {p \in (1..n) \X (1..n) : p[1] < p[2]}

\* scipy.stats.kendalltau(x, y), tau-b: "ValueError" for inputs of different
\* sizes, "nan" when one input is constant, else the correlation as
\* num / sqrt(den2) with num = concordant - discordant pairs and
\* den2 = (n0 - n1) * (n0 - n2)
kendalltau(x, y) ==
    IF Len(x) # Len(y) THEN [status |-> "ValueError", num |-> 0, den2 |-> 1]
    ELSE LET P == PairsOf(Len(x))
             con == Cardinality({p \in P :
                        Sign(x[p[1]] - x[p[2]]) * Sign(y[p[1]] - y[p[2]]) > 0})
             dis == Cardinality({p \in P :
                        Sign(x[p[1]] - x[p[2]]) * Sign(y[p[1]] - y[p[2]]) < 0})
             tied_x == Cardinality({p \in P : x[p[1]] = x[p[2]]})
             tied_y == Cardinality({p \in P : y[p[1]] = y[p[2]]})
             n0 == Cardinality(P)
             den2 == (n0 - tied_x) * (n0 - tied_y)
         IN  IF den2 = 0 THEN [status |-> "nan", num |-> 0, den2 |-> 1]
             ELSE [status |-> "ok", num |-> con - dis, den2 |-> den2]

\* mutant of TooFewRanks: len(pred_ranks) <= 2
TooFewRanksOffByOne(pred_ranks) == Len(pred_ranks) <= 2

\* len(pred_ranks) < 2
TooFewRanks(pred_ranks) == Len(pred_ranks) < 2

\* RankingMetrics.kendall_tau, the correlation it returns (the p-value is not
\* modelled)
kendall_tau(predicted, ground_truth_ranking) ==
    LET pred_ranks == convert_to_ranks(predicted, ground_truth_ranking)
        true_ranks == [i \in 1..Len(ground_truth_ranking) |-> i]
    IN  IF TooFewRanks(pred_ranks) THEN [status |-> "ok", num |-> 0, den2 |-> 1]
        ELSE kendalltau(pred_ranks, true_ranks)

\* A correlation that is exactly 1.0
IsOne(tau) == tau.status = "ok" /\ tau.num > 0 /\ tau.num * tau.num = tau.den2

PreferencePairs == SeqsUpTo(CvIds \X CvIds, MaxPairs)

RelevanceTables == UNION {[S -> 0..MaxRel] : S \in SUBSET CvIds}

InitMetrics ==
    /\ predicted_ranking \in SeqsUpTo(CvIds, MaxRankLen)
    /\ metric_out = None
    /\ RankUnused /\ CompareUnused /\ ConfigUnused /\ ScoreUnused /\ MappingUnused /\ IngestUnused

Returned(op, args, value) == Some([op |-> op, args |-> args, value |-> value])

PairwiseAccuracy(pairs) ==
    /\ metric_out = None
    /\ metric_out' = Returned("pairwise_accuracy", pairs,
                              pairwise_accuracy(predicted_ranking, pairs))
    /\ UNCHANGED <<predicted_ranking, rankVars, cmpVars, cfgVars, scoreVars, mappingVars, ingestVars>>

MeanAveragePrecision(relevant_items) ==
    /\ metric_out = None
    /\ metric_out' = Returned("mean_average_precision", relevant_items,
                              mean_average_precision(predicted_ranking, relevant_items))
    /\ UNCHANGED <<predicted_ranking, rankVars, cmpVars, cfgVars, scoreVars, mappingVars, ingestVars>>

NdcgAtK(relevance_scores, k) ==
    /\ metric_out = None
    /\ metric_out' = Returned("ndcg_at_k", [relevance_scores |-> relevance_scores, k |-> k],
                              ndcg_at_k(predicted_ranking, relevance_scores, k))
    /\ UNCHANGED <<predicted_ranking, rankVars, cmpVars, cfgVars, scoreVars, mappingVars, ingestVars>>

KendallTau(ground_truth_ranking) ==
    /\ metric_out = None
    /\ metric_out' = Returned("kendall_tau", ground_truth_ranking,
                              kendall_tau(predicted_ranking, ground_truth_ranking))
    /\ UNCHANGED <<predicted_ranking, rankVars, cmpVars, cfgVars, scoreVars, mappingVars, ingestVars>>

NextMetrics ==
    \/ \E pairs \in PreferencePairs : PairwiseAccuracy(pairs)
    \/ \E relevant_items \in SeqsUpTo(CvIds, MaxRelevant) : MeanAveragePrecision(relevant_items)
    \/ \E relevance_scores \in RelevanceTables, k \in (0 - 1)..MaxK :
            NdcgAtK(relevance_scores, k)
    \/ \E ground_truth_ranking \in SeqsUpTo(CvIds, MaxRankLen) : KendallTau(ground_truth_ranking)

SpecMetrics == InitMetrics /\ [][NextMetrics]_vars

Called(op) == metric_out # None /\ The(metric_out).op = op

NoDuplicates(seq) == \A i, j \in 1..Len(seq) : i # j => seq[i] # seq[j]

\* The first position of id in seq
FirstIndex(seq, id) == CHOOSE i \in 1..Len(seq) : seq[i] = id /\ \A j \in 1..(i - 1) : seq[j] # id

\* The pairs (by index) whose two ids both appear in the predicted ranking
EvaluablePairs(pairs) ==
    {n \in 1..Len(pairs) :
        pairs[n][1] \in Range(predicted_ranking) /\ pairs[n][2] \in Range(predicted_ranking)}

\* ... and whose better id is at an earlier position than its worse id
CorrectlyOrderedPairs(pairs) ==
    {n \in EvaluablePairs(pairs) :
        FirstIndex(predicted_ranking, pairs[n][1]) < FirstIndex(predicted_ranking, pairs[n][2])}

\* C7: pairwise_accuracy is (correctly ordered evaluable pairs) / (evaluable
\* pairs): a pair with an absent id counts in neither.
C7_AccuracyOverEvaluablePairs ==
    (Called("pairwise_accuracy") /\ NoDuplicates(predicted_ranking)
     /\ EvaluablePairs(The(metric_out).args) # {}) =>
        RatEq(The(metric_out).value,
              Rat(Cardinality(CorrectlyOrderedPairs(The(metric_out).args)),
                  Cardinality(EvaluablePairs(The(metric_out).args))))

\* The positions of the predicted ranking that hold a relevant item
RelevantPositions(relevant_set) ==
    {i \in 1..Len(predicted_ranking) : predicted_ranking[i] \in relevant_set}

\* sum over the positions in S of (relevant items found up to i) / i
RECURSIVE PrecisionSum(_, _)
PrecisionSum(relevant_set, S) ==
    IF S = {} THEN Rat(0, 1)
    ELSE LET i == CHOOSE x \in S : TRUE
         IN  RatAdd(Rat(Cardinality({j \in RelevantPositions(relevant_set) : j <= i}), i),
                    PrecisionSum(relevant_set, S \ {i}))

\* C8: mean_average_precision is the sum over the positions i holding a
\* relevant item of (relevant found up to i) / i, divided by the total number
\* of relevant items; 0 when the relevant set is empty or nothing relevant is
\* predicted.
C8_MapOverAllRelevant ==
    Called("mean_average_precision") =>
        LET relevant_set == Range(The(metric_out).args)
            positions == RelevantPositions(relevant_set)
            sum == PrecisionSum(relevant_set, positions)
        IN  IF relevant_set = {} \/ positions = {}
            THEN The(metric_out).value = Rat(0, 1)
            ELSE RatEq(The(metric_out).value,
                       Rat(sum[1], sum[2] * Cardinality(relevant_set)))

C8_Witness ==
    /\ Called("mean_average_precision")
    /\ Cardinality(Range(The(metric_out).args)) = 2
    /\ Cardinality(RelevantPositions(Range(The(metric_out).args))) = 1
    /\ Len(predicted_ranking) >= 2
    /\ predicted_ranking[1] \notin Range(The(metric_out).args)
    /\ RatEq(The(metric_out).value, Rat(1, 4))

\* The predicted ranking lists the ids of the table in descending relevance.
IsIdealRanking(relevance_scores) ==
    /\ NoDuplicates(predicted_ranking)
    /\ Range(predicted_ranking) = DOMAIN relevance_scores
    /\ \A i \in 1..(Len(predicted_ranking) - 1) :
          relevance_scores[predicted_ranking[i]] >= relevance_scores[predicted_ranking[i + 1]]

\* C9 as stated: for every relevance table and every k, nDCG@k of the ideal
\* ranking is 1.0.
C9_IdealRankingScoresOne ==
    (Called("ndcg_at_k") /\ IsIdealRanking(The(metric_out).args.relevance_scores)) =>
        RatEq(The(metric_out).value.value, Rat(1, 1))

\* C9 amended: nDCG@k of the ideal ranking has DCG = IDCG; it is 1.0 when IDCG
\* is not 0 and 0.0 when IDCG is 0 (k = 0, an empty table, or no positive
\* relevance among the top k).
C9_IdealRankingScoresOneUnlessIdcgZero ==
    (Called("ndcg_at_k") /\ IsIdealRanking(The(metric_out).args.relevance_scores)) =>
        LET out == The(metric_out).value IN
        /\ out.dcg = out.idcg
        /\ out.idcg # 0 => RatEq(out.value, Rat(1, 1))
        /\ out.idcg = 0 => out.value = Rat(0, 1)

C9_Witness ==
    /\ Called("ndcg_at_k")
    /\ IsIdealRanking(The(metric_out).args.relevance_scores)
    /\ Len(predicted_ranking) = 3
    /\ The(metric_out).args.k = 2
    /\ The(metric_out).args.relevance_scores[predicted_ranking[2]] > 0
    /\ The(metric_out).args.relevance_scores[predicted_ranking[3]] > 0
    /\ RatEq(The(metric_out).value.value, Rat(1, 1))

\* kendall_tau(r, r) was called on a ranking r of distinct ids
SelfKendall ==
    /\ Called("kendall_tau")
    /\ The(metric_out).args = predicted_ranking
    /\ NoDuplicates(predicted_ranking)

-----------------------------------------------------------------------------
(* Claims about the ranker *)

\* C2: after rank_from_summary or rank_from_scored_cvs on N scored records the
\* rank fields are exactly 1..N in list order and final_score is non-increasing
\* from each entry to the next.
C2_DenseRanksNonIncreasing ==
    (rank_op \in {"summary", "scored_cvs"} /\ AllScored(scores)) =>
        /\ Len(ranked_cvs) = Len(scores)
        /\ \A i \in 1..Len(ranked_cvs) : ranked_cvs[i].rank = i
        /\ \A i \in 1..(Len(ranked_cvs) - 1) :
              ranked_cvs[i].final_score >= ranked_cvs[i + 1].final_score

C2_Witness ==
    /\ rank_op = "scored_cvs"
    /\ AllScored(scores)
    /\ Len(ranked_cvs) >= 3
    /\ ranked_cvs[1].cv_filename # 1
    /\ ranked_cvs[1].final_score > ranked_cvs[3].final_score

\* Position of the input record i in the ranked output.
PosOf(i) == CHOOSE p \in 1..Len(ranked_cvs) :
                "cv_filename" \in DOMAIN ranked_cvs[p] /\ ranked_cvs[p].cv_filename = i

\* C3: ranking is a stable sort: of two scored records with equal final_score
\* the one earlier in the input gets the smaller rank.
C3_StableSort ==
    (rank_op # "none" /\ AllScored(scores)) =>
        \A i, j \in 1..Len(scores) :
            (i < j /\ scores[i].final_score = scores[j].final_score) =>
                ranked_cvs[PosOf(i)].rank < ranked_cvs[PosOf(j)].rank

C3_Witness ==
    /\ rank_op = "summary"
    /\ Len(scores) >= 3
    /\ scores[1].final_score < scores[2].final_score
    /\ scores[2].final_score = scores[3].final_score
    /\ ranked_cvs[1].cv_filename = 2
    /\ ranked_cvs[2].cv_filename = 3

\* C30: when kendall_tau maps at least two predicted items onto ground-truth
\* positions, the sequence of positions has as many elements as the ground
\* truth, so that the correlation with 1..|ground_truth| is defined.
C30_MappedRanksMatchGroundTruth ==
    Called("kendall_tau") =>
        LET ground_truth_ranking == The(metric_out).args
            pred_ranks == convert_to_ranks(predicted_ranking, ground_truth_ranking)
        IN  Len(pred_ranks) >= 2 =>
                /\ Len(pred_ranks) = Len(ground_truth_ranking)
                /\ The(metric_out).value.status # "ValueError"

====
